---- MODULE Spec2Model ----
(***************************************************************************)
(* A model of the Degoo client (src/degoo/util.py, lib.py, API.py): the    *)
(* item cache, the path resolver, mkdir / mv / rm, the change detector,    *)
(* put and the schedule gate, over a small remote item store.              *)
(*                                                                         *)
(* Path strings are sequences of characters.  The alphabet is "/", "."     *)
(* and a few name atoms ("A", "f", ...), each standing for a run of        *)
(* characters that holds neither "/" nor ".".                              *)
(***************************************************************************)
EXTENDS Integers, Sequences, FiniteSets, TLC

SEP == "/"
DOT == "."

(***************************************************************************)
(* Python string helpers                                                   *)
(***************************************************************************)
\* str.rstrip("/")
RECURSIVE RStripSep(_)
RStripSep(s) ==
    IF Len(s) > 0 /\ s[Len(s)] = SEP THEN RStripSep(SubSeq(s, 1, Len(s) - 1)) ELSE s

\* str.split("/")
RECURSIVE SplitSep(_)
SplitSep(s) ==
    IF \A i \in 1..Len(s) : s[i] # SEP THEN <<s>>
    ELSE LET i == CHOOSE k \in 1..Len(s) : s[k] = SEP /\ \A j \in 1..(k - 1) : s[j] # SEP
         IN  <<SubSeq(s, 1, i - 1)>> \o SplitSep(SubSeq(s, i + 1, Len(s)))

\* "/".join(comps)
RECURSIVE JoinSep(_)
JoinSep(comps) ==
    IF Len(comps) = 0 THEN <<>>
    ELSE IF Len(comps) = 1 THEN comps[1]
    ELSE comps[1] \o <<SEP>> \o JoinSep(Tail(comps))

\* s.rfind("/") + 1
RFindSepPlus1(s) ==
    IF \A i \in 1..Len(s) : s[i] # SEP THEN 0
    ELSE CHOOSE k \in 1..Len(s) : s[k] = SEP /\ \A j \in (k + 1)..Len(s) : s[j] # SEP

AllSep(s) == \A i \in 1..Len(s) : s[i] = SEP

\* posixpath.split: <<head, tail>>
os_path_split(p) ==
    LET i    == RFindSepPlus1(p)
        head == SubSeq(p, 1, i)
        tail == SubSeq(p, i + 1, Len(p))
    IN  <<IF Len(head) > 0 /\ ~AllSep(head) THEN RStripSep(head) ELSE head, tail>>

\* posixpath.join(a, b)
os_path_join(a, b) ==
    IF Len(b) > 0 /\ b[1] = SEP THEN b
    ELSE IF Len(a) = 0 \/ a[Len(a)] = SEP THEN a \o b
    ELSE a \o <<SEP>> \o b

DOTDOT == <<DOT, DOT>>

\* the loop of posixpath.normpath over the components
RECURSIVE NormComps(_, _, _)
NormComps(comps, new_comps, initial_slashes) ==
    IF Len(comps) = 0 THEN new_comps
    ELSE LET comp == Head(comps)
             rest == Tail(comps)
         IN  IF comp = <<>> \/ comp = <<DOT>> THEN NormComps(rest, new_comps, initial_slashes)
             ELSE IF \/ comp # DOTDOT
                     \/ (initial_slashes = 0 /\ Len(new_comps) = 0)
                     \/ (Len(new_comps) > 0 /\ new_comps[Len(new_comps)] = DOTDOT)
                  THEN NormComps(rest, Append(new_comps, comp), initial_slashes)
             ELSE IF Len(new_comps) > 0
                  THEN NormComps(rest, SubSeq(new_comps, 1, Len(new_comps) - 1), initial_slashes)
             ELSE NormComps(rest, new_comps, initial_slashes)

\* posixpath.normpath
os_path_normpath(path) ==
    IF Len(path) = 0 THEN <<DOT>>
    ELSE LET initial_slashes ==
                 IF path[1] # SEP THEN 0
                 ELSE IF Len(path) >= 2 /\ path[2] = SEP /\ ~(Len(path) >= 3 /\ path[3] = SEP)
                      THEN 2 ELSE 1
             comps  == NormComps(SplitSep(path), <<>>, initial_slashes)
             joined == JoinSep(comps)
             out    == IF initial_slashes = 2 THEN <<SEP, SEP>> \o joined
                       ELSE IF initial_slashes = 1 THEN <<SEP>> \o joined
                       ELSE joined
         IN  IF Len(out) = 0 THEN <<DOT>> ELSE out

\* lib.split_path
RECURSIVE split_path(_)
split_path(path) ==
    LET parts == os_path_split(path)
    IN  IF parts[1] = path THEN <<parts[1]>>
        ELSE IF parts[2] = path THEN <<parts[2]>>
        ELSE Append(split_path(parts[1]), parts[2])

\* lib.absolute_remote_path (the alphabet holds no white space, so
\* len(path.strip()) is len(path))
absolute_remote_path(cwd, path) ==
    IF Len(path) > 0 /\ path[1] = SEP
    THEN os_path_normpath(IF Len(path) > 1 THEN RStripSep(path) ELSE path)
    ELSE os_path_normpath(os_path_join(cwd.Path, RStripSep(path)))


(***************************************************************************)
(* State                                                                   *)
(***************************************************************************)
VARIABLES
    remote,          \* the Degoo service's items: ID -> record
    cacheItems,      \* util.__CACHE_ITEMS__, in dict insertion order: <<[k, v], ...>>
    cacheContents,   \* util.__CACHE_CONTENTS__: dir ID -> list of item dicts
    CWD,             \* util.CWD, a ddd
    cwdFile,         \* the file cwd.json of the configuration directory
    SCHEDULE,        \* util.SCHEDULE: direction -> <<window start, window end>>
    localFS,         \* the local file system: [files, cwd, dirs]
    last,            \* the call of the latest step, its outcome and the remote calls it issued
    prev,            \* the value of last before the latest step
    nOps             \* the number of steps taken

vars == <<remote, cacheItems, cacheContents, CWD, cwdFile, SCHEDULE, localFS, last, prev, nOps>>

\* Bounds of the model
MaxOps == 3        \* steps of a session of lookups and mutations
MaxPutOps == 2     \* steps of a session of uploads and downloads
PageLimit == 3     \* items on a page of a listing (LIMIT_MAX, scaled down)

NONE == -1                 \* Python's None where an ID is expected
EmptyProps == [empty |-> TRUE]   \* the dict {} that getOverlay returns: no key of an item

\* API.folder_types
folder_types == {"Folder", "Device", "Recycle Bin"}

\* util.__CACHE_ITEMS__ at import
RootItem ==
    [ID |-> 0, ParentID |-> NONE, Name |-> <<SEP>>, FilePath |-> <<SEP>>,
     CategoryName |-> "Root"]

\* lib.ddd
ddd(ID, Path) == [ID |-> ID, Path |-> Path]

(***************************************************************************)
(* Results of calls.  Every operator that models a Python function takes   *)
(* the world w = [remote, items, contents, calls] it runs in and returns   *)
(* the world it leaves, with its return value or the exception it raises.  *)
(***************************************************************************)
\* the steps of a walk, in the order they are taken: w.trace
Note(w, e) == [w EXCEPT !.trace = Append(@, e)]

Ret(w, v)   == [w |-> w, ok |-> TRUE,  val |-> v,    err |-> "none"]
Raise(w, e) == [w |-> w, ok |-> FALSE, val |-> NONE, err |-> e]
Call(w, c)  == [w EXCEPT !.calls = Append(@, c)]

HasKey(d, k) == k \in DOMAIN d

\* "x = <call>; <rest>": the rest of a function body K, given the outcome x of
\* a call; Try passes on what the call raised
With(x, K(_)) == K(x)
Try(x, K(_)) == IF x.ok THEN K(x) ELSE x

(***************************************************************************)
(* The Degoo service, as the API class sees it.  Sibling names are unique  *)
(* in the service: a rename or move onto a taken name is answered with an  *)
(* error, an upload under a taken name replaces that item's content.       *)
(***************************************************************************)
\* an item as the service holds it
SvcItem(parent, name, cat, size, time) ==
    [ParentID |-> parent, Name |-> name, Category |-> cat, Binned |-> FALSE,
     Size |-> size, LastUploadTime |-> time]

\* an item the service holds inline: it has no URL, its content is Data (the
\* empty Data of an item that has neither)
SvcInline(parent, name, data) ==
    [ParentID |-> parent, Name |-> name, Category |-> "Document", Binned |-> FALSE,
     Size |-> Len(data), LastUploadTime |-> 1, Data |-> data]

SetToSortedSeq(S) ==
    LET RECURSIVE build(_)
        build(T) == IF T = {} THEN <<>>
                    ELSE LET m == CHOOSE a \in T : \A b \in T : a <= b
                         IN  <<m>> \o build(T \ {m})
    IN  build(S)

\* the IDs the service lists under dir_id, in the service's order
SvcChildren(r, dir_id) ==
    SetToSortedSeq({i \in DOMAIN r : r[i].ParentID = dir_id /\ ~r[i].Binned})

SvcNameTaken(r, dir_id, name) ==
    \E i \in DOMAIN r : r[i].ParentID = dir_id /\ ~r[i].Binned /\ r[i].Name = name

\* another item than id holds the name in dir_id
SvcNameClash(r, id, dir_id, name) ==
    \E i \in DOMAIN r \ {id} : r[i].ParentID = dir_id /\ ~r[i].Binned /\ r[i].Name = name

\* the FilePath property as the service delivers it: the path below the device
RECURSIVE SvcFilePath(_, _)
SvcFilePath(r, id) ==
    IF r[id].Category = "Device" THEN <<>>
    ELSE IF r[id].ParentID \in DOMAIN r
         THEN SvcFilePath(r, r[id].ParentID) \o <<SEP>> \o r[id].Name
         ELSE <<SEP>> \o r[id].Name

\* API.devices[item.DeviceID]: the name of the device that holds the item
RECURSIVE DeviceName(_, _)
DeviceName(r, id) ==
    IF r[id].Category = "Device" \/ r[id].ParentID \notin DOMAIN r THEN r[id].Name
    ELSE DeviceName(r, r[id].ParentID)

\* the property dictionary getOverlay and getFileChildren build for an item
ApiItem(r, id) ==
    LET cat == r[id].Category
        prefix == IF r[id].Binned THEN DeviceName(r, id) \o <<SEP, "Recycle Bin">>
                  ELSE DeviceName(r, id)
    IN  [ID |-> id, ParentID |-> r[id].ParentID, Name |-> r[id].Name,
         FilePath |-> IF cat = "Device" THEN <<SEP>> \o r[id].Name
                      ELSE <<SEP>> \o prefix \o SvcFilePath(r, id),
         CategoryName |-> cat, Size |-> r[id].Size,
         LastUploadTime |-> r[id].LastUploadTime,
         URL |-> IF cat \in folder_types \/ HasKey(r[id], "Data") THEN <<>>
                 ELSE <<"url", id>>,
         Data |-> IF HasKey(r[id], "Data") THEN r[id].Data ELSE <<>>]

\* api.getOverlay3(degoo_id).  The service has no properties for the root; for
\* an ID it has no record of it answers with an error or with no properties
\* (w.oracle).
ApiGetOverlay3(w, degoo_id) ==
    LET w1 == Call(w, <<"getOverlay3", degoo_id>>)
    IN  IF degoo_id \in DOMAIN w.remote THEN Ret(w1, ApiItem(w.remote, degoo_id))
        ELSE IF degoo_id = 0 \/ w.oracle = "null" THEN Ret(w1, EmptyProps)
        ELSE Raise(w1, "ApiError")

\* the list of property dictionaries of the children of dir_id
ApiChildren(r, dir_id) ==
    LET ids == SvcChildren(r, dir_id)
    IN  [n \in 1..Len(ids) |-> ApiItem(r, ids[n])]

\* the Items of the reply to one request: the service puts at most PageLimit
\* of them on a page and adds a NextToken when more are left
FirstPage(items) == SubSeq(items, 1, IF Len(items) < PageLimit THEN Len(items) ELSE PageLimit)

\* api.getFileChildren3(dir_id): one request; a NextToken in the reply is
\* reported with a warning and not followed
ApiGetFileChildren3(w, dir_id) ==
    Ret(Call(w, <<"getFileChildren3", dir_id>>), FirstPage(ApiChildren(w.remote, dir_id)))

(***************************************************************************)
(* util: the item cache                                                    *)
(***************************************************************************)
CacheHas(items, k) == \E n \in 1..Len(items) : items[n].k = k
CacheGet(items, k) == items[CHOOSE n \in 1..Len(items) : items[n].k = k].v

\* d[k] = v on a Python dict: a known key keeps its place
CachePut(items, k, v) ==
    IF CacheHas(items, k)
    THEN [n \in 1..Len(items) |-> IF items[n].k = k THEN [k |-> k, v |-> v] ELSE items[n]]
    ELSE Append(items, [k |-> k, v |-> v])

\* d.pop(k, None)
CachePop(items, k) == SelectSeq(items, LAMBDA e : e.k # k)

RECURSIVE CachePutAll(_, _)
CachePutAll(items, list) ==
    IF Len(list) = 0 THEN items
    ELSE CachePutAll(CachePut(items, Head(list).ID, Head(list)), Tail(list))

DictPop(f, k) == [j \in DOMAIN f \ {k} |-> f[j]]

\* a decache that drops the listing and keeps the item
decache_listing_only(w, degoo_id) ==
    [w EXCEPT !.contents = DictPop(@, degoo_id)]

\* util.decache
decache(w, degoo_id) ==
    [w EXCEPT !.items = CachePop(@, degoo_id), !.contents = DictPop(@, degoo_id)]

\* get_item.props
props(w, degoo_id) ==
    IF CacheHas(w.items, degoo_id) THEN Ret(w, CacheGet(w.items, degoo_id))
    ELSE Try(ApiGetOverlay3(w, degoo_id), LAMBDA r :
             Ret([r.w EXCEPT !.items = CachePut(@, degoo_id, r.val)], r.val))

\* util.get_children for an int directory
get_children(w, dir_id) ==
    IF dir_id \in DOMAIN w.contents THEN Ret(w, w.contents[dir_id])
    ELSE With(ApiGetFileChildren3(w, dir_id), LAMBDA r :
             Ret([r.w EXCEPT !.contents = (dir_id :> r.val) @@ @,
                             !.items = CachePutAll(@, r.val)], r.val))

\* {f["Name"]: int(f["ID"]) for f in contents}[p]: the last entry of that name
HasName(contents, p) == \E n \in 1..Len(contents) : contents[n].Name = p
IdOfName(contents, p) ==
    contents[CHOOSE n \in 1..Len(contents) :
                 /\ contents[n].Name = p
                 /\ \A m \in (n + 1)..Len(contents) : contents[m].Name # p].ID

\* util.get_item for an int path, recursive=False
get_item_int(w, id) == props(w, id)

\* util.path_str for an int ID: the exception, if any, is swallowed
path_str_world(w, degoo_id) == get_item_int(w, degoo_id).w

\* the loop "for p in parts" of get_item
RECURSIVE get_item_walk(_, _, _)
get_item_walk(w, part_id, parts) ==
    IF Len(parts) = 0 THEN Ret(w, part_id)
    ELSE With(get_children(w, part_id), LAMBDA r :
             IF HasName(r.val, Head(parts))
             THEN get_item_walk(r.w, IdOfName(r.val, Head(parts)), Tail(parts))
             ELSE Raise(path_str_world(r.w, part_id), "DegooError"))

\* paths = {item["FilePath"]: item for _, item in __CACHE_ITEMS__.items()}
PathsRaises(items) == \E n \in 1..Len(items) : ~HasKey(items[n].v, "FilePath")
PathsHas(items, abs_path) == \E n \in 1..Len(items) : items[n].v.FilePath = abs_path
PathsGet(items, abs_path) ==
    items[CHOOSE n \in 1..Len(items) :
              /\ items[n].v.FilePath = abs_path
              /\ \A m \in (n + 1)..Len(items) : items[m].v.FilePath # abs_path].v

\* get_item for a str path, lines 518-543: the walk from the root or the CWD
get_item_parts(w, parts) ==
    Try(IF parts[1] = <<SEP>> THEN get_item_walk(w, 0, Tail(parts))
        ELSE get_item_walk(w, w.cwd.ID, parts),
        LAMBDA r : get_item_int(r.w, r.val))

\* get_item for a str path, lines 514-520, given abs_path
get_item_abs(w, abs_path) ==
    IF PathsRaises(w.items) THEN Raise(w, "KeyError")
    ELSE IF PathsHas(w.items, abs_path) THEN Ret(w, PathsGet(w.items, abs_path))
    ELSE get_item_parts(w, split_path(abs_path))

\* util.get_item for a str path, recursive=False
get_item_str(w, path) == get_item_abs(w, absolute_remote_path(w.cwd, path))

\* a path argument: an int, a str or None
IntArg(i) == [t |-> "int", i |-> i]
StrArg(s) == [t |-> "str", s |-> s]
NoneArg   == [t |-> "none"]

\* util.get_item(path), recursive=False
get_item(w, path) ==
    IF path.t = "none" THEN get_item_int(w, w.cwd.ID)
    ELSE IF path.t = "str" THEN get_item_str(w, path.s)
    ELSE get_item_int(w, path.i)

\* util.path_id: the ID, or None when anything is raised
path_id(w, path) ==
    With(get_item(w, path), LAMBDA r :
        IF r.ok /\ HasKey(r.val, "ID") THEN Ret(r.w, r.val.ID) ELSE Ret(r.w, NONE))

\* util.exists
exists(w, path) ==
    With(path_id(w, path), LAMBDA r : Ret(r.w, r.val # NONE))

\* util.is_folder
is_folder(w, path) ==
    With(get_item(w, path), LAMBDA r :
        Ret(r.w, r.ok /\ HasKey(r.val, "CategoryName") /\ r.val.CategoryName \in folder_types))

(***************************************************************************)
(* The mutating API calls                                                  *)
(***************************************************************************)
NewID(r) == (CHOOSE m \in DOMAIN r : \A j \in DOMAIN r : j <= m) + 1

IsSvcFolder(r, id) == id \in DOMAIN r /\ r[id].Category \in folder_types /\ ~r[id].Binned

SvcIdOfName(r, dir_id, name) ==
    CHOOSE i \in DOMAIN r : r[i].ParentID = dir_id /\ ~r[i].Binned /\ r[i].Name = name

\* api.setUploadFile3(name, parent_id, size, checksum): creates the item (a
\* folder for size 0 and the empty checksum), lists the parent and returns the
\* ID listed under that name.  w.clock is the service's time of the upload.
ApiSetUploadFile3(w, name, parent_id, size, is_folder_sum) ==
    LET w1 == Call(w, <<"setUploadFile3", name, parent_id>>)
        r  == w.remote
    IN  IF ~IsSvcFolder(r, parent_id) THEN Raise(w1, "ApiError")
        ELSE LET new == SvcItem(parent_id, name, IF is_folder_sum THEN "Folder" ELSE "File",
                                size, IF is_folder_sum THEN 0 ELSE w.clock)
                 r2  == IF SvcNameTaken(r, parent_id, name)
                        THEN IF is_folder_sum THEN r
                             ELSE [r EXCEPT ![SvcIdOfName(r, parent_id, name)] =
                                       [@ EXCEPT !.Size = size, !.LastUploadTime = w.clock]]
                        ELSE (NewID(r) :> new) @@ r
                 w2  == Call([w1 EXCEPT !.remote = r2], <<"getFileChildren5", parent_id>>)
             IN  Ret(w2, SvcIdOfName(r2, parent_id, name))

\* api.setRenameFile(file_id, new_name)
ApiSetRenameFile(w, file_id, new_name) ==
    LET w1 == Call(w, <<"setRenameFile", file_id, new_name>>)
        r  == w.remote
    IN  IF file_id \notin DOMAIN r \/ SvcNameClash(r, file_id, r[file_id].ParentID, new_name)
        THEN Raise(w1, "ApiError")
        ELSE Ret([w1 EXCEPT !.remote[file_id].Name = new_name], file_id)

\* api.setMoveFile(file_id, new_parent_id)
ApiSetMoveFile(w, file_id, new_parent_id) ==
    LET w1 == Call(w, <<"setMoveFile", file_id, new_parent_id>>)
        r  == w.remote
    IN  IF \/ file_id \notin DOMAIN r
           \/ ~IsSvcFolder(r, new_parent_id)
           \/ new_parent_id = file_id
           \/ SvcNameClash(r, file_id, new_parent_id, r[file_id].Name)
        THEN Raise(w1, "ApiError")
        ELSE Ret([w1 EXCEPT !.remote[file_id].ParentID = new_parent_id], file_id)

\* the items at and below id
RECURSIVE SvcSubtree(_, _, _)
SvcSubtree(r, id, depth) ==
    IF depth = 0 THEN {id}
    ELSE {id} \cup UNION {SvcSubtree(r, c, depth - 1) : c \in {j \in DOMAIN r : r[j].ParentID = id}}

\* api.setDeleteFile5(degoo_id): the item goes to its device's recycle bin
ApiSetDeleteFile5(w, degoo_id) ==
    LET w1 == Call(w, <<"setDeleteFile5", degoo_id>>)
        r  == w.remote
    IN  IF degoo_id \notin DOMAIN r THEN Raise(w1, "ApiError")
        ELSE LET gone == SvcSubtree(r, degoo_id, Cardinality(DOMAIN r))
             IN  Ret([w1 EXCEPT !.remote =
                          [j \in DOMAIN r |-> IF j \in gone THEN [r[j] EXCEPT !.Binned = TRUE]
                                              ELSE r[j]]], NONE)

(***************************************************************************)
(* util: mkdir, mkpath, mv, rm                                             *)
(***************************************************************************)
\* Python's "not x" for an ID or None
Falsy(id) == id = NONE \/ id = 0

\* a mkdir that creates the folder in a dry run too
mkdir_in_dry_creates(w, name, parent_id, dry_run) ==
    IF Falsy(parent_id) THEN Raise(w, "DegooError")
    ELSE With(get_children(w, parent_id), LAMBDA l :
             IF HasName(l.val, name) THEN Ret(l.w, IdOfName(l.val, name))
             ELSE ApiSetUploadFile3(l.w, name, parent_id, 0, TRUE))

\* mkdir, lines 204-222, given a parent_id that is not None
mkdir_in(w, name, parent_id, dry_run) ==
    IF Falsy(parent_id) THEN Raise(w, "DegooError")
    ELSE With(get_children(w, parent_id), LAMBDA l :
             IF HasName(l.val, name) THEN Ret(l.w, IdOfName(l.val, name))
             ELSE IF dry_run THEN Ret(l.w, NONE)
             ELSE ApiSetUploadFile3(l.w, name, parent_id, 0, TRUE))

\* util.mkdir(name, parent_id, dry_run=dry_run); parent_id is an ID or None
mkdir(w, name, parent_id, dry_run) ==
    IF parent_id = NONE /\ HasKey(w.cwd, "Path")
    THEN Try(get_item(w, StrArg(w.cwd.Path)), LAMBDA g :
             mkdir_in(g.w, name, IF HasKey(g.val, "ID") THEN g.val.ID ELSE NONE, dry_run))
    ELSE mkdir_in(w, name, parent_id, dry_run)

\* the loop "for d in dirs" of mkpath
RECURSIVE mkpath_loop(_, _, _)
mkpath_loop(w, dirs, current_dir) ==
    IF Len(dirs) = 0 THEN Ret(w, current_dir)
    ELSE IF Len(Head(dirs)) = 0 THEN mkpath_loop(w, Tail(dirs), current_dir)
    ELSE Try(mkdir(w, Head(dirs), current_dir, FALSE), LAMBDA m :
             mkpath_loop(m.w, Tail(dirs), m.val))

\* mkpath, given dirs
mkpath_dirs(w, dirs) ==
    IF dirs[1] = <<SEP>> THEN mkpath_loop(w, Tail(dirs), 0)
    ELSE mkpath_loop(w, dirs, w.cwd.ID)

\* util.mkpath
mkpath(w, path) == mkpath_dirs(w, split_path(path))

\* the arguments of mv and the folders and names it splits them into
MvArgs(source, target, source_folder, target_folder, source_name, target_name) ==
    [source |-> source, target |-> target, source_folder |-> source_folder,
     target_folder |-> target_folder, source_name |-> source_name,
     target_name |-> target_name]

\* mv, lines 308-321: the source was moved under its own name, the name
\* target_name being taken in the source folder
mv_rename_after(w, a, moved_id) ==
    With(path_id(w, StrArg(os_path_join(a.target_folder, a.source_name))), LAMBDA i2 :
        IF ~Falsy(i2.val) THEN Ret(decache(i2.w, moved_id), moved_id)
        ELSE With(path_id(i2.w, StrArg(os_path_join(a.target_folder, a.source_name))),
                  LAMBDA s2 :
                 IF Falsy(s2.val) \/ Len(a.target_name) = 0 THEN Raise(s2.w, "DegooError")
                 ELSE Try(ApiSetRenameFile(s2.w, s2.val, a.target_name), LAMBDA rn2 :
                          Ret(decache(rn2.w, s2.val), s2.val))))

\* mv, lines 306-326: setMoveFile, then the rename that may be left to do
mv_move(w, a, source_id, target_id, rename_after) ==
    Try(ApiSetMoveFile(w, source_id, target_id), LAMBDA mo :
        IF rename_after THEN mv_rename_after(mo.w, a, mo.val)
        ELSE Ret(decache(mo.w, mo.val), mo.val))

\* mv, lines 295-304: rename it before moving
mv_rename_first(w, a, source_id) ==
    Try(ApiSetRenameFile(w, source_id, a.target_name), LAMBDA rn :
        With(path_id(rn.w, StrArg(a.target_folder)), LAMBDA t3 :
            IF Falsy(rn.val) \/ Falsy(t3.val) THEN Raise(t3.w, "DegooError")
            ELSE mv_move(t3.w, a, rn.val, t3.val, FALSE)))

\* mv, lines 284-326: the rename and move calls, then decache
mv_apply(w, a, source_id, target_id) ==
    IF a.source_folder = a.target_folder
    THEN Try(ApiSetRenameFile(w, source_id, a.target_name), LAMBDA rn :
             Ret(decache(rn.w, rn.val), rn.val))
    ELSE IF a.target_name = a.source_name THEN mv_move(w, a, source_id, target_id, FALSE)
    ELSE With(path_id(w, StrArg(os_path_join(a.source_folder, a.target_name))), LAMBDA i1 :
             IF Falsy(i1.val) THEN mv_rename_first(i1.w, a, source_id)
             ELSE mv_move(i1.w, a, source_id, target_id, TRUE))

\* mv, lines 269-282: the target does not exist; the folder to move into
mv_target_folder(w, a) ==
    IF Len(a.target_name) > 0
    THEN With(path_id(w, StrArg(a.target_folder)), LAMBDA t2 :
             IF Falsy(t2.val) THEN mkpath(t2.w, a.target_folder) ELSE t2)
    ELSE mkpath(w, a.target)

\* a mv that makes the folder to move into before it looks at the source
mv_resolve_target_first(w, a) ==
    With(path_id(w, StrArg(a.target)), LAMBDA t :
        IF ~Falsy(t.val)
        THEN With(is_folder(t.w, StrArg(a.target)), LAMBDA f :
                 With(path_id(f.w, StrArg(a.source)), LAMBDA s :
                     IF ~f.val \/ Falsy(s.val) THEN Raise(s.w, "DegooError")
                     ELSE mv_apply(s.w, a, s.val, t.val)))
        ELSE Try(mv_target_folder(t.w, a), LAMBDA mk :
                 With(path_id(mk.w, StrArg(a.source)), LAMBDA s :
                     IF Falsy(s.val) \/ Falsy(mk.val) THEN Raise(s.w, "DegooError")
                     ELSE mv_apply(s.w, a, s.val, mk.val))))

\* mv, lines 260-282: the source's ID and the ID of the folder to move it to
mv_resolve(w, a) ==
    With(path_id(w, StrArg(a.source)), LAMBDA s :
        IF Falsy(s.val) THEN Raise(s.w, "DegooError")
        ELSE With(path_id(s.w, StrArg(a.target)), LAMBDA t :
                 IF ~Falsy(t.val)
                 THEN With(is_folder(t.w, StrArg(a.target)), LAMBDA f :
                          IF ~f.val THEN Raise(f.w, "DegooError")
                          ELSE mv_apply(f.w, a, s.val, t.val))
                 ELSE Try(mv_target_folder(t.w, a), LAMBDA mk :
                          IF Falsy(mk.val) THEN Raise(mk.w, "DegooError")
                          ELSE mv_apply(mk.w, a, s.val, mk.val))))

\* mv, lines 238-258, given whether the target exists and is a folder
mv_split(w, source, target, target_exists, ss, ts) ==
    With(MvArgs(source, target,
                IF Len(ss[1]) = 0 THEN w.cwd.Path ELSE ss[1],
                IF target_exists
                THEN (IF Len(target) = 0 THEN w.cwd.Path ELSE target)
                ELSE (IF Len(ts[1]) = 0 THEN w.cwd.Path ELSE ts[1]),
                ss[2],
                IF target_exists THEN ss[2] ELSE ts[2]),
         LAMBDA a :
             IF /\ a.source_folder = a.target_folder
                /\ (Len(a.source_name) = 0 \/ Len(a.target_name) = 0)
             THEN Raise(w, "DegooError")
             ELSE mv_resolve(w, a))

\* util.mv(source, target), both str
mv(w, source, target) ==
    IF source = target THEN Raise(w, "DegooError")
    ELSE With(exists(w, StrArg(target)), LAMBDA e :
             IF e.val
             THEN With(is_folder(e.w, StrArg(target)), LAMBDA f :
                      IF ~f.val THEN Raise(f.w, "DegooError")
                      ELSE mv_split(f.w, source, target, TRUE,
                                    os_path_split(source), os_path_split(target)))
             ELSE mv_split(e.w, source, target, FALSE,
                           os_path_split(source), os_path_split(target)))

\* a rm that reads the item's path after the delete
rm_path_after_delete(w, file) ==
    With(path_id(w, file), LAMBDA i :
        IF Falsy(i.val) THEN Raise(i.w, "DegooError")
        ELSE Try(ApiSetDeleteFile5(i.w, i.val), LAMBDA d :
                 Try(ApiGetOverlay3(d.w, i.val), LAMBDA o :
                     IF ~HasKey(o.val, "FilePath") THEN Raise(o.w, "KeyError")
                     ELSE Ret(o.w, o.val.FilePath))))

\* util.rm(file)
rm(w, file) ==
    With(path_id(w, file), LAMBDA i :
        IF Falsy(i.val) THEN Raise(i.w, "DegooError")
        ELSE Try(ApiGetOverlay3(i.w, i.val), LAMBDA o :
                 IF ~HasKey(o.val, "FilePath") THEN Raise(o.w, "KeyError")
                 ELSE Try(ApiSetDeleteFile5(o.w, i.val), LAMBDA d :
                          Ret(d.w, o.val.FilePath))))

(***************************************************************************)
(* util: the schedule gate                                                 *)
(***************************************************************************)
\* A time.struct_time, compared as the tuple it is: <<tm_year, tm_mon, tm_mday,
\* tm_hour, tm_min, tm_sec>> (tm_wday, tm_yday and tm_isdst follow and decide
\* nothing that these six leave open here).
RECURSIVE TupleLess(_, _)
TupleLess(a, b) ==
    IF Len(a) = 0 \/ Len(b) = 0 THEN Len(a) < Len(b)
    ELSE IF Head(a) # Head(b) THEN Head(a) < Head(b)
    ELSE TupleLess(Tail(a), Tail(b))

TupleMin(a, b) == IF TupleLess(b, a) THEN b ELSE a
TupleMax(a, b) == IF TupleLess(a, b) THEN b ELSE a

\* time.strptime(s, "%H:%M:%S") for s = "HH:MM:SS", given as <<HH, MM, SS>>: the
\* date fields take strptime's defaults 1900-01-01
strptime_HMS(s) == <<1900, 1, 1>> \o s

\* util.DEFAULT_SCHEDULE
DEFAULT_SCHEDULE == [upload |-> <<<<1, 0, 0>>, <<6, 0, 0>>>>, download |-> <<<<1, 0, 0>>, <<6, 0, 0>>>>]

\* util.wait_until_next: both branches start with datetime.datetime.now(), and
\* datetime is the class imported by "from datetime import datetime"
wait_until_next(w, time_of_day) ==
    Raise(Call(w, <<"wait_until_next", time_of_day>>), "AttributeError")

\* "now > min(window_start, window_end) and now < max(window_start, window_end)"
in_window(now, window_start, window_end) ==
    /\ TupleLess(TupleMin(window_start, window_end), now)
    /\ TupleLess(now, TupleMax(window_start, window_end))

\* the "if schedule:" block of put_file and get_file, given the window's ends
\* as strptime gives them and time.localtime()
schedule_block(w, window_start, window_end, now) ==
    IF \/ (TupleLess(window_start, window_end) /\ ~in_window(now, window_start, window_end))
       \/ (TupleLess(window_end, window_start) /\ in_window(now, window_start, window_end))
    THEN wait_until_next(w, window_start)
    ELSE Ret(w, NONE)

\* the "if schedule:" block of put_file (direction "upload") and get_file
\* ("download"); w.now is time.localtime()
schedule_gate(w, direction) ==
    schedule_block(w, strptime_HMS(w.sched[direction][1]),
                   strptime_HMS(w.sched[direction][2]), w.now)

(***************************************************************************)
(* util: the change detector                                               *)
(***************************************************************************)
\* util.get_children(directory) for an int, a str or None
get_children_arg(w, directory) ==
    IF directory.t = "none" THEN get_children(w, IF ~Falsy(w.cwd.ID) THEN w.cwd.ID ELSE 0)
    ELSE IF directory.t = "int" THEN get_children(w, directory.i)
    ELSE With(path_id(w, directory), LAMBDA p : get_children(p.w, p.val))

\* the last entry of that name in a listing
EntryOfName(contents, name) ==
    contents[CHOOSE n \in 1..Len(contents) :
                 /\ contents[n].Name = name
                 /\ \A m \in (n + 1)..Len(contents) : contents[m].Name # name]

\* An aware datetime, as microseconds since the epoch.
\* datetime.fromtimestamp(mtime).astimezone(tzlocal()), mtime in microseconds
LocalDatetime(mtime) == mtime
\* datetime.utcfromtimestamp(int(ms) / 1000).replace(tzinfo=tzutc()).astimezone(tzlocal())
UploadDatetime(ms) == ms * 1000

os_path_basename(p) == os_path_split(p)[2]

\* a comparison that takes an equal time for a later one
has_changed_sum_or_equal(Size, LastModificationTime, Remote_Size, LastUploadTime) ==
    Size # Remote_Size \/ LastModificationTime >= LastUploadTime

\* has_changed, line 661
has_changed_sum(Size, LastModificationTime, Remote_Size, LastUploadTime) ==
    Size # Remote_Size \/ LastModificationTime > LastUploadTime

\* has_changed, lines 633-641: the file's record in the folder's listing
has_changed_in(files, lf) ==
    IF HasName(files, os_path_basename(lf.path))
    THEN has_changed_sum(lf.size, LocalDatetime(lf.mtime),
                         EntryOfName(files, os_path_basename(lf.path)).Size,
                         UploadDatetime(EntryOfName(files, os_path_basename(lf.path)).LastUploadTime))
    ELSE has_changed_sum(lf.size, LocalDatetime(lf.mtime), 0, UploadDatetime(0))

\* has_changed, lines 643-650: the record remote_path names
has_changed_of(item, lf) ==
    IF ~HasKey(item, "empty")      \* "if props:"
    THEN has_changed_sum(lf.size, LocalDatetime(lf.mtime), item.Size,
                         UploadDatetime(item.LastUploadTime))
    ELSE has_changed_sum(lf.size, LocalDatetime(lf.mtime), 0, UploadDatetime(0))

\* util.has_changed(local_filename, remote_path); lf = [path, size, mtime] is
\* the local file with what os.path.getsize and getmtime (microseconds) say
has_changed(w, lf, remote_path) ==
    With(is_folder(w, remote_path), LAMBDA f :
        IF f.val
        THEN With(get_children_arg(f.w, remote_path), LAMBDA l :
                 Ret(l.w, has_changed_in(l.val, lf)))
        ELSE Try(get_item(f.w, remote_path), LAMBDA g :
                 IF ~HasKey(g.val, "empty") /\ ~HasKey(g.val, "Size")
                 THEN Raise(g.w, "KeyError")
                 ELSE Ret(g.w, has_changed_of(g.val, lf))))

(***************************************************************************)
(* util: put                                                               *)
(***************************************************************************)
PutNone == [ret |-> "None"]
PutTuple(id, path, url) == [ret |-> "tuple", ID |-> id, Path |-> path, URL |-> url]

\* put_file, lines 1049-1065: setUploadFile3 and getOverlay3
put_file_register(w, lf, dir_id) ==
    Try(ApiSetUploadFile3(w, os_path_basename(lf.path), dir_id, lf.size, FALSE), LAMBDA c :
        Try(ApiGetOverlay3(c.w, c.val), LAMBDA o :
            IF ~HasKey(o.val, "FilePath") THEN Raise(o.w, "KeyError")
            ELSE Ret(o.w, PutTuple(c.val, o.val.FilePath, o.val.URL))))

\* an upload that registers the file whatever the POST is answered with
put_file_upload_unchecked(w, lf, dir_id) ==
    put_file_register(Call(Call(w, <<"getBucketWriteAuth4", dir_id>>),
                           <<"POST", lf.path>>), lf, dir_id)

\* put_file, lines 921-1067: the four steps of an upload.  The POST of a file
\* in w.failing is answered with another status than 204.
put_file_upload(w, lf, dir_id) ==
    IF lf.path \in w.failing
    THEN Raise(Call(Call(w, <<"getBucketWriteAuth4", dir_id>>), <<"POST", lf.path>>),
               "DegooError")
    ELSE put_file_register(Call(Call(w, <<"getBucketWriteAuth4", dir_id>>),
                                <<"POST", lf.path>>), lf, dir_id)

\* put_file, lines 1068-1081: not uploaded
put_file_skip(w, lf, dir_id) ==
    With(get_children(w, dir_id), LAMBDA l :
        IF ~HasName(l.val, os_path_basename(lf.path)) THEN Raise(l.w, "UnboundLocalError")
        ELSE Ret(l.w, PutTuple(EntryOfName(l.val, os_path_basename(lf.path)).ID,
                               EntryOfName(l.val, os_path_basename(lf.path)).FilePath,
                               EntryOfName(l.val, os_path_basename(lf.path)).URL)))

\* put_file, lines 914-1081, given whether to upload
put_file_do(w, lf, dir_id, upload, dry_run) ==
    IF ~upload THEN put_file_skip(w, lf, dir_id)
    ELSE IF dry_run THEN Ret(w, PutNone)
    ELSE put_file_upload(w, lf, dir_id)

\* put_file, lines 901-914
put_file_to(w, lf, remote_folder, if_changed, dry_run) ==
    Try(get_item(w, remote_folder), LAMBDA dest :
        IF ~HasKey(dest.val, "ID") THEN Raise(dest.w, "KeyError")
        ELSE With(is_folder(dest.w, IntArg(dest.val.ID)), LAMBDA f :
                 IF ~f.val THEN Raise(f.w, "DegooError")
                 ELSE IF ~if_changed THEN put_file_do(f.w, lf, dest.val.ID, TRUE, dry_run)
                 ELSE Try(has_changed(f.w, lf, remote_folder), LAMBDA h :
                          put_file_do(h.w, lf, dest.val.ID, h.val, dry_run))))

\* util.put_file(local_file, remote_folder, verbose, if_changed, dry_run, schedule)
put_file(w, lf, remote_folder, if_changed, dry_run, schedule) ==
    IF schedule
    THEN Try(schedule_gate(w, "upload"), LAMBDA s :
             put_file_to(s.w, lf, remote_folder, if_changed, dry_run))
    ELSE put_file_to(w, lf, remote_folder, if_changed, dry_run)

\* The local directories put is given: path -> the names os.scandir lists in it
LocalDirs ==
    (<<"d">> :> [dirs |-> <<>>, files |-> <<<<"x">>, <<"y">>, <<"z">>>>]) @@
    (<<"t", SEP, "d">> :> [dirs |-> <<>>, files |-> <<<<"x">>, <<"y">>, <<"z">>>>]) @@
    (<<"n">> :> [dirs |-> <<<<"s">>>>, files |-> <<<<"x">>>>]) @@
    (<<"n", SEP, "s">> :> [dirs |-> <<>>, files |-> <<<<"y">>>>]) @@
    (<<"t", SEP, "n">> :> [dirs |-> <<<<"s">>>>, files |-> <<<<"x">>>>]) @@
    (<<"t", SEP, "n", SEP, "s">> :> [dirs |-> <<>>, files |-> <<<<"y">>>>])

\* the local file at path (every file of LocalDirs has size 1 and mtime 1)
LocalFile(path) == [path |-> path, size |-> 1, mtime |-> 1]

\* os.walk(top), top-down: <<[root, dirs, files], ...>>
RECURSIVE os_walk(_)
os_walk(top) ==
    LET here == LocalDirs[top]
        RECURSIVE below(_)
        below(ds) == IF Len(ds) = 0 THEN <<>>
                     ELSE os_walk(os_path_join(top, Head(ds))) \o below(Tail(ds))
    IN  <<[root |-> top, dirs |-> here.dirs, files |-> here.files]>> \o below(here.dirs)

\* str.replace(old, "", 1): s without the first occurrence of old
StartsAt(s, old, i) == i + Len(old) - 1 <= Len(s) /\ SubSeq(s, i, i + Len(old) - 1) = old
ReplaceFirst(s, old) ==
    IF \E i \in 1..Len(s) : StartsAt(s, old, i)
    THEN LET i == CHOOSE k \in 1..Len(s) : StartsAt(s, old, k) /\ \A j \in 1..(k - 1) : ~StartsAt(s, old, j)
         IN  SubSeq(s, 1, i - 1) \o SubSeq(s, i + Len(old), Len(s))
    ELSE s

IdArg(id) == IF id = NONE THEN NoneArg ELSE IntArg(id)

RECURSIVE put_directory_dirs(_, _, _, _, _)

\* a loop over the dirs that remembers the parent's ID for the folder it made
put_directory_dirs_parent_id(w, IDs, root, relative_root, o) ==
    IF Len(o.names) = 0 THEN Ret(w, IDs)
    ELSE IF relative_root \notin DOMAIN IDs THEN Raise(w, "KeyError")
    ELSE Try(mkdir(Note(w, <<"mkdir", os_path_join(root, Head(o.names)), IDs[relative_root]>>),
                   Head(o.names), IDs[relative_root], o.dry_run), LAMBDA m :
             put_directory_dirs(Note(m.w, <<"ensured", os_path_join(root, Head(o.names)), m.val>>),
                                (os_path_join(root, Head(o.names)) :> IDs[relative_root]) @@ IDs,
                                root, relative_root, [o EXCEPT !.names = Tail(@)]))

\* put_directory: "for name in dirs"; returns the dict IDs
put_directory_dirs(w, IDs, root, relative_root, o) ==
    IF Len(o.names) = 0 THEN Ret(w, IDs)
    ELSE IF relative_root \notin DOMAIN IDs THEN Raise(w, "KeyError")
    ELSE Try(mkdir(Note(w, <<"mkdir", os_path_join(root, Head(o.names)), IDs[relative_root]>>),
                   Head(o.names), IDs[relative_root], o.dry_run), LAMBDA m :
             put_directory_dirs(Note(m.w, <<"ensured", os_path_join(root, Head(o.names)), m.val>>),
                                (os_path_join(root, Head(o.names)) :> m.val) @@ IDs,
                                root, relative_root, [o EXCEPT !.names = Tail(@)]))

\* put_directory: "for name in files"
RECURSIVE put_directory_files(_, _, _, _, _)
put_directory_files(w, IDs, root, relative_root, o) ==
    IF Len(o.names) = 0 THEN Ret(w, IDs)
    ELSE IF relative_root \notin DOMAIN IDs THEN Raise(w, "KeyError")
    ELSE Try(put_file(Note(w, <<"put_file", os_path_join(root, Head(o.names)), IDs[relative_root]>>),
                      LocalFile(os_path_join(root, Head(o.names))),
                      IdArg(IDs[relative_root]), o.if_changed, o.dry_run, o.schedule),
             LAMBDA u :
                 put_directory_files(u.w, IDs, root, relative_root,
                                     [o EXCEPT !.names = Tail(@)]))

\* put_directory, lines 1109-1112
relative_root_of(root, target_junk) ==
    IF Len(target_junk) > 0 THEN ReplaceFirst(root, target_junk \o <<SEP>>) ELSE root

\* put_directory: "for root, dirs, files in os.walk(local_directory)"
RECURSIVE put_directory_walk(_, _, _, _, _)
put_directory_walk(w, IDs, walk, target_junk, o) ==
    IF Len(walk) = 0 THEN Ret(w, IDs)
    ELSE Try(put_directory_dirs(w, IDs, Head(walk).root,
                                relative_root_of(Head(walk).root, target_junk),
                                [o EXCEPT !.names = Head(walk).dirs]), LAMBDA d :
             Try(put_directory_files(d.w, d.val, Head(walk).root,
                                     relative_root_of(Head(walk).root, target_junk),
                                     [o EXCEPT !.names = Head(walk).files]), LAMBDA f :
                 put_directory_walk(f.w, f.val, Tail(walk), target_junk, o)))

\* util.get_dir(path): a ddd of the item at path, of the CWD for a falsy path
get_dir(w, path) ==
    Try(IF path.t = "none" \/ (path.t = "int" /\ path.i = 0)
           \/ (path.t = "str" /\ Len(path.s) = 0)
        THEN get_item(w, StrArg(w.cwd.Path))
        ELSE get_item(w, path),
        LAMBDA g : IF ~HasKey(g.val, "FilePath") THEN Raise(g.w, "KeyError")
                   ELSE Ret(g.w, ddd(g.val.ID, g.val.FilePath)))

\* a cd that resolves the path and returns the ddd but writes no cwd.json
cd_unwritten(w, path) ==
    Try(get_dir(w, path), LAMBDA d : Ret(d.w, d.val))

\* util.cd(path): the ddd goes to a local name CWD of the function and to
\* cwd.json; the module's CWD is not assigned
cd(w, path) ==
    Try(get_dir(w, path), LAMBDA d : Ret([d.w EXCEPT !.cwdfile = d.val], d.val))

\* put_directory, lines 1102-1125, given the target and the split local path
put_directory_to(w, target_dir, local_directory, target_junk, Root, o) ==
    Try(mkdir(Note(w, <<"mkdir", local_directory, target_dir.ID>>),
              Root, target_dir.ID, o.dry_run), LAMBDA m :
        Try(put_directory_walk(Note(m.w, <<"ensured", local_directory, m.val>>),
                               (Root :> m.val), os_walk(local_directory), target_junk, o),
            LAMBDA x : Ret(x.w, [ret |-> "tuple", ID |-> x.val[Root],
                                 Path |-> target_dir.Path])))

\* util.put_directory(local_directory, remote_folder, verbose, if_changed, dry_run, schedule)
put_directory(w, local_directory, remote_folder, if_changed, dry_run, schedule) ==
    Try(get_dir(w, remote_folder), LAMBDA target_dir :
        put_directory_to(target_dir.w, target_dir.val, local_directory,
                         os_path_split(local_directory)[1], os_path_split(local_directory)[2],
                         [names |-> <<>>, if_changed |-> if_changed, dry_run |-> dry_run,
                          schedule |-> schedule]))

\* util.put(local_path, remote_folder, verbose, if_changed, dry_run, schedule);
\* lp is the local path with what os.path says of it
put(w, lp, remote_folder, if_changed, dry_run, schedule) ==
    IF lp.isdir THEN put_directory(w, lp.path, remote_folder, if_changed, dry_run, schedule)
    ELSE IF lp.isfile
         THEN put_file(w, [path |-> lp.path, size |-> lp.size, mtime |-> lp.mtime],
                       remote_folder, if_changed, dry_run, schedule)
    ELSE Ret(w, PutNone)

(***************************************************************************)
(* util: get; local_directory is None or the string of an absolute path    *)
(***************************************************************************)
GetNone == [ret |-> "None"]
GetPath(path) == [ret |-> "str", Path |-> path]

\* os.path.isdir
os_path_isdir(w, p) == p \in w.dirs

RECURSIVE get_file(_, _, _, _, _, _)
RECURSIVE get_directory(_, _, _, _, _, _)
RECURSIVE get_directory_files(_, _, _)
RECURSIVE get_directory_folders(_, _, _)

\* get_file, lines 717-786, for an item that is no folder; cwd is the working
\* directory remembered at line 707, and wget writes to out=Name in the
\* working directory of the moment
get_file_item(w, item, cwd, dest_file, if_missing, dry_run) ==
    IF HasKey(item, "URL") /\ Len(item.URL) > 0 /\ Len(item.Name) > 0
    THEN IF ~if_missing \/ dest_file \notin w.local
         THEN IF dry_run THEN Ret([w EXCEPT !.oscwd = cwd], GetPath(item.FilePath))
              ELSE IF item.Name \in w.failing
                   THEN Ret([Call(w, <<"wget", item.ID, os_path_join(w.oscwd, item.Name)>>)
                                EXCEPT !.oscwd = cwd],
                            GetPath(item.FilePath))
              ELSE Ret([Call(w, <<"wget", item.ID, os_path_join(w.oscwd, item.Name)>>)
                           EXCEPT !.local = @ \cup {os_path_join(w.oscwd, item.Name)},
                                  !.oscwd = cwd],
                       GetPath(item.FilePath))
         ELSE Ret(w, GetNone)
    ELSE IF HasKey(item, "Data") /\ Len(item.Data) > 0 /\ Len(item.Name) > 0
    THEN Ret([Call(w, <<"open_w", item.ID, dest_file>>) EXCEPT !.local = @ \cup {dest_file}], GetNone)
    ELSE Raise(w, "DegooError")

\* get_file, lines 706-715: the destination, and os.chdir(local_directory)
get_file_to(w, item, local_directory, if_missing, dry_run) ==
    IF local_directory.t = "none"
    THEN get_file_item(w, item, w.oscwd, os_path_join(w.oscwd, item.Name), if_missing, dry_run)
    ELSE IF os_path_isdir(w, local_directory.s)
    THEN get_file_item([w EXCEPT !.oscwd = local_directory.s], item, w.oscwd,
                       os_path_join(local_directory.s, item.Name), if_missing, dry_run)
    ELSE Raise(w, "DegooError")

\* get_file, lines 689-786
get_file_from(w, remote_file, local_directory, if_missing, dry_run) ==
    Try(get_item(w, remote_file), LAMBDA g :
        IF ~HasKey(g.val, "CategoryName") THEN Raise(g.w, "KeyError")
        ELSE IF g.val.CategoryName \in folder_types
             THEN get_directory(g.w, remote_file, NoneArg, FALSE, FALSE, FALSE)
        ELSE get_file_to(g.w, g.val, local_directory, if_missing, dry_run))

\* util.get_file(remote_file, local_directory, verbose, if_missing, dry_run,
\* schedule); wget.download fails for the names in w.failing, and its
\* exception is caught
get_file(w, remote_file, local_directory, if_missing, dry_run, schedule) ==
    IF schedule
    THEN Try(schedule_gate(w, "download"), LAMBDA s :
             get_file_from(s.w, remote_file, local_directory, if_missing, dry_run))
    ELSE get_file_from(w, remote_file, local_directory, if_missing, dry_run)

\* a loop over the files that a DegooError of get_file ends
get_directory_files_stop(w, files, o) ==
    IF Len(files) = 0 THEN Ret(w, NONE)
    ELSE With(get_file(w, IntArg(Head(files).ID), o.local_directory, o.if_missing,
                       o.dry_run, o.schedule),
              LAMBDA r : IF ~r.ok THEN Ret(r.w, NONE)
                         ELSE get_directory_files(r.w, Tail(files), o))

\* get_directory: "for f in files", a DegooError of get_file is reported only
get_directory_files(w, files, o) ==
    IF Len(files) = 0 THEN Ret(w, NONE)
    ELSE With(get_file(w, IntArg(Head(files).ID), o.local_directory, o.if_missing,
                       o.dry_run, o.schedule),
              LAMBDA r : IF ~r.ok /\ r.err # "DegooError" THEN r
                         ELSE get_directory_files(r.w, Tail(files), o))

\* get_directory: "for f in folders"
get_directory_folders(w, folders, o) ==
    IF Len(folders) = 0 THEN Ret(w, NONE)
    ELSE Try(get_directory(w, IntArg(Head(folders).ID), o.local_directory, o.if_missing,
                           o.dry_run, o.schedule),
             LAMBDA r : get_directory_folders(r.w, Tail(folders), o))

IsFolderItem(c) == c.CategoryName \in folder_types
IsFileItem(c) == c.CategoryName \notin folder_types

\* get_directory, lines 829-850, in the folder made and entered
get_directory_into(w, cwd, children, o) ==
    Try(get_directory_files(w, SelectSeq(children, IsFileItem), o), LAMBDA f :
        Try(get_directory_folders(f.w, SelectSeq(children, IsFolderItem), o), LAMBDA d :
            Ret([d.w EXCEPT !.oscwd = cwd], GetNone)))

\* get_directory, lines 819-850, in the working directory base: os.mkdir and
\* os.chdir of the item's Name, then the children; cwd is the working
\* directory remembered at line 810
get_directory_in(w, item, cwd, base, o) ==
    With(get_children([w EXCEPT !.local = @ \cup {os_path_join(base, item.Name)},
                                !.dirs = @ \cup {os_path_join(base, item.Name)},
                                !.oscwd = os_path_join(base, item.Name)], item.ID),
         LAMBDA l : get_directory_into(l.w, cwd, l.val, o))

\* get_directory, lines 807-850, for an item that is a folder
get_directory_item(w, item, o) ==
    IF o.local_directory.t = "none" THEN get_directory_in(w, item, w.oscwd, w.oscwd, o)
    ELSE IF os_path_isdir(w, o.local_directory.s)
    THEN get_directory_in(w, item, w.oscwd, o.local_directory.s, o)
    ELSE Raise(w, "DegooError")

\* util.get_directory(remote_folder, local_directory, verbose, if_missing,
\* dry_run, schedule)
get_directory(w, remote_folder, local_directory, if_missing, dry_run, schedule) ==
    Try(get_item(w, remote_folder), LAMBDA g :
        IF ~HasKey(g.val, "CategoryName") THEN Raise(g.w, "KeyError")
        ELSE IF g.val.CategoryName \notin folder_types
             THEN get_file(g.w, remote_folder, NoneArg, FALSE, FALSE, FALSE)
        ELSE get_directory_item(g.w, g.val, [local_directory |-> local_directory,
                                             if_missing |-> if_missing, dry_run |-> dry_run,
                                             schedule |-> schedule]))

\* util.get(remote_path, local_directory, verbose, if_missing, dry_run, schedule)
get(w, remote_path, local_directory, if_missing, dry_run, schedule) ==
    Try(get_item(w, remote_path), LAMBDA g :
        IF ~HasKey(g.val, "CategoryName") THEN Raise(g.w, "KeyError")
        ELSE IF g.val.CategoryName \in folder_types
             THEN get_directory(g.w, IntArg(g.val.ID), local_directory, if_missing, dry_run,
                                schedule)
        ELSE get_file(g.w, IntArg(g.val.ID), local_directory, if_missing, dry_run, schedule))

(***************************************************************************)
(* Initial state: one device A holding a folder B and a file f, B holding  *)
(* a file g; the caches as the module is loaded.                           *)
(***************************************************************************)
InitRemote ==
    (1 :> SvcItem(0, <<"A">>, "Device", 0, 0)) @@
    (2 :> SvcItem(1, <<"B">>, "Folder", 0, 0)) @@
    (3 :> SvcItem(1, <<"f">>, "File", 1, 1)) @@
    (4 :> SvcItem(2, <<"g">>, "File", 1, 1))

\* the local directories that exist before the session, besides the working
\* directory
LocalDirectories == { <<SEP, "L">> }

\* an ID the service has no record of
NoSuchID == NewID(InitRemote) + 4

\* cwd.json as the module is loaded: not there, or written by a cd to /A
NoFile == [isfile |-> FALSE]
CwdFileInputs == {NoFile, ddd(1, <<SEP, "A">>)}

\* util, lines 37-43: the CWD as the module is loaded
LoadCWD(file) == IF file = NoFile THEN ddd(0, <<SEP>>) ELSE file

\* a schedule.json with a window that wraps midnight
WrappedSchedule == [upload |-> <<<<22, 0, 0>>, <<4, 0, 0>>>>, download |-> <<<<22, 0, 0>>, <<4, 0, 0>>>>]
ScheduleInputs == {DEFAULT_SCHEDULE, WrappedSchedule}

NoCall == [op |-> "none"]

InitSession ==
    /\ remote = InitRemote
    /\ cacheItems = <<[k |-> 0, v |-> RootItem]>>
    /\ cacheContents = << >>
    /\ cwdFile \in CwdFileInputs
    /\ CWD = LoadCWD(cwdFile)
    /\ localFS = [files |-> {}, cwd |-> <<>>, dirs |-> LocalDirectories]
    /\ last = NoCall
    /\ prev = NoCall
    /\ nOps = 0

Init == InitSession /\ SCHEDULE = DEFAULT_SCHEDULE

InitSched == InitSession /\ SCHEDULE \in ScheduleInputs

\* the session and its environment at the start of a call: the service's
\* reply to an unknown ID, its clock (ms), the transfers that fail, local time
Env(oracle, failing, now) == [oracle |-> oracle, failing |-> failing, now |-> now]
NoEnv == Env("error", {}, <<2026, 11, 5, 12, 0, 0>>)

World(env) ==
    [remote |-> remote, items |-> cacheItems, contents |-> cacheContents,
     calls |-> <<>>, trace |-> <<>>, cwd |-> CWD, cwdfile |-> cwdFile, sched |-> SCHEDULE, local |-> localFS.files,
     oscwd |-> localFS.cwd, dirs |-> localFS.dirs, oracle |-> env.oracle, clock |-> 2 + nOps,
     failing |-> env.failing, now |-> env.now]

\* the step that made call with outcome r
Step(call, r) ==
    /\ nOps' = nOps + 1
    /\ remote' = r.w.remote
    /\ cacheItems' = r.w.items
    /\ cacheContents' = r.w.contents
    /\ localFS' = [files |-> r.w.local, cwd |-> r.w.oscwd, dirs |-> r.w.dirs]
    /\ cwdFile' = r.w.cwdfile
    /\ last' = call @@ [ok |-> r.ok, val |-> r.val, err |-> r.err, calls |-> r.w.calls,
                        trace |-> r.w.trace, pre |-> remote,
                        cached |-> {cacheItems[n].k : n \in 1..Len(cacheItems)}]
    /\ prev' = last
    /\ UNCHANGED <<CWD, SCHEDULE>>

(***************************************************************************)
(* The calls of a session                                                  *)
(***************************************************************************)
DoGetItem(path, env) ==
    Step([op |-> "get_item", path |-> path], get_item(World(env), path))

DoGetChildren(dir_id) ==
    Step([op |-> "get_children", directory |-> dir_id], get_children(World(NoEnv), dir_id))

\* Lookups only
PathInputs ==
    { <<SEP>>, <<SEP, "A">>, <<SEP, "A", SEP, "f">>, <<SEP, "A", SEP, "B">>,
      <<SEP, "A", SEP, "B", SEP, "g">>, <<SEP, "A", SEP, "h">>,
      <<"f">>, <<DOT, SEP, "f">>, <<"A", SEP, "f">> }
IdInputs == {0, 1, 2, 3, 4}
OracleInputs == {"error", "null"}

LookupPath ==
    \E p \in PathInputs :
        /\ nOps < MaxOps
        /\ DoGetItem(StrArg(p), NoEnv)

LookupId ==
    \E i \in IdInputs \cup {NoSuchID}, oracle \in OracleInputs :
        /\ nOps < MaxOps
        /\ DoGetItem(IntArg(i), Env(oracle, {}, NoEnv.now))

LookupChildren ==
    \E i \in IdInputs :
        /\ nOps < MaxOps
        /\ DoGetChildren(i)

NextLookup == LookupPath \/ LookupId \/ LookupChildren

SpecLookup == Init /\ [][NextLookup]_vars

\* Lookups and mutations
SessionPaths == { <<SEP, "A", SEP, "f">>, <<SEP, "A", SEP, "h">>, <<SEP, "A", SEP, "B", SEP, "g">>, <<"f">> }
SessionIds == {1, 3}

GetItemPath ==
    \E p \in SessionPaths :
        /\ nOps < MaxOps
        /\ DoGetItem(StrArg(p), NoEnv)

GetItemId ==
    \E i \in SessionIds :
        /\ nOps < MaxOps
        /\ DoGetItem(IntArg(i), NoEnv)

GetChildren ==
    \E i \in {1, 2} :
        /\ nOps < MaxOps
        /\ DoGetChildren(i)

Decache ==
    \E i \in SessionIds :
        /\ nOps < MaxOps
        /\ Step([op |-> "decache", degoo_id |-> i], Ret(decache(World(NoEnv), i), NONE))

MkdirInputs == { <<<<"h">>, 1>>, <<<<"h">>, 2>>, <<<<"f">>, 1>> }

Mkdir ==
    \E a \in MkdirInputs :
        /\ nOps < MaxOps
        /\ Step([op |-> "mkdir", name |-> a[1], parent_id |-> a[2]],
                mkdir(World(NoEnv), a[1], a[2], FALSE))

MvSources == { <<SEP, "A", SEP, "f">>, <<DOT, SEP, "f">> }
MvTargets == { <<"h">>, <<SEP, "A", SEP, "h">>, <<SEP, "A", SEP, "B">>, <<SEP, "A", SEP, "B", SEP, "h">> }

Mv ==
    \E s \in MvSources, t \in MvTargets :
        /\ nOps < MaxOps
        /\ Step([op |-> "mv", source |-> s, target |-> t], mv(World(NoEnv), s, t))

RmInputs == { StrArg(<<SEP, "A", SEP, "f">>), StrArg(<<SEP, "A", SEP, "B">>), IntArg(3) }

Rm ==
    \E f \in RmInputs :
        /\ nOps < MaxOps
        /\ Step([op |-> "rm", file |-> f], rm(World(NoEnv), f))

Next == GetItemPath \/ GetItemId \/ GetChildren \/ Decache \/ Mkdir \/ Mv \/ Rm

Spec == Init /\ [][Next]_vars

\* Sessions of lookups in a device A that holds from none to MaxFiles files
MaxFiles == 5
MaxListOps == 3

FileNames == << <<"a">>, <<"b">>, <<"c">>, <<"d">>, <<"e">> >>

WideRemote(n) ==
    (1 :> SvcItem(0, <<"A">>, "Device", 0, 0)) @@
    [i \in 2..(n + 1) |-> SvcItem(1, FileNames[i - 1], "File", 1, 1)]

InitList ==
    /\ remote \in {WideRemote(n) : n \in 0..MaxFiles}
    /\ cacheItems = <<[k |-> 0, v |-> RootItem]>>
    /\ cacheContents = << >>
    /\ cwdFile \in CwdFileInputs
    /\ CWD = LoadCWD(cwdFile)
    /\ SCHEDULE = DEFAULT_SCHEDULE
    /\ localFS = [files |-> {}, cwd |-> <<>>, dirs |-> LocalDirectories]
    /\ last = NoCall
    /\ prev = NoCall
    /\ nOps = 0

ListPaged ==
    \E i \in {0, 1} :
        /\ nOps < MaxListOps
        /\ DoGetChildren(i)

ResolvePaged ==
    \E n \in {1, 4, 5} :
        /\ nOps < MaxListOps
        /\ DoGetItem(StrArg(<<SEP, "A", SEP>> \o FileNames[n]), NoEnv)

EvictPaged ==
    \E i \in {1, 2} :
        /\ nOps < MaxListOps
        /\ Step([op |-> "decache", degoo_id |-> i], Ret(decache(World(NoEnv), i), NONE))

NextList == ListPaged \/ ResolvePaged \/ EvictPaged

SpecList == InitList /\ [][NextList]_vars

\* Sessions that change directory, move and remove, over more spellings
MaxTreeOps == 2

MvAnySources == { <<SEP, "A", SEP, "f">>, <<DOT, SEP, "f">>, <<"q">>, <<SEP, "A", SEP, "B", SEP, "g">> }
MvAnyTargets ==
    { <<SEP, "A", SEP, "B", SEP, "h">>, <<SEP, "A", SEP, "B", SEP, "B">>,
      <<SEP, "A", SEP, "B", SEP, "g">>, <<SEP, "A", SEP, "n", SEP, "h">>,
      <<"n", SEP, "h">>, <<"n", SEP, "f">>,
      <<SEP, "A", SEP, "B", SEP, "f">>, <<SEP, "A", SEP, "B">> }

MvAny ==
    \E s \in MvAnySources, t \in MvAnyTargets :
        /\ nOps < MaxTreeOps
        /\ Step([op |-> "mv", source |-> s, target |-> t], mv(World(NoEnv), s, t))

RmAnyInputs ==
    { StrArg(<<SEP, "A", SEP, "f">>), StrArg(<<"B">>), StrArg(<<SEP, "A", SEP, "q">>),
      IntArg(3), IntArg(NoSuchID) }

RmAny ==
    \E f \in RmAnyInputs, oracle \in OracleInputs :
        /\ nOps < MaxTreeOps
        /\ Step([op |-> "rm", file |-> f], rm(World(Env(oracle, {}, NoEnv.now)), f))

CdInputs == { StrArg(<<SEP, "A">>), StrArg(<<"B">>), StrArg(<<SEP>>), StrArg(<<"q">>), NoneArg }

Cd ==
    \E path \in CdInputs :
        /\ nOps < MaxTreeOps
        /\ Step([op |-> "cd", path |-> path], cd(World(NoEnv), path))

DecacheAny ==
    \E i \in {0, 1, 3} :
        /\ nOps < MaxTreeOps
        /\ Step([op |-> "decache", degoo_id |-> i], Ret(decache(World(NoEnv), i), NONE))

ResolveInputs ==
    { NoneArg, IntArg(0), StrArg(<<"f">>), StrArg(<<SEP, "A", SEP, "f">>),
      StrArg(<<SEP, DOT, DOT>>), StrArg(DOTDOT), StrArg(<<SEP, "A", SEP, "f", SEP, "x">>) }

Resolve ==
    \E path \in ResolveInputs :
        /\ nOps < MaxTreeOps
        /\ DoGetItem(path, NoEnv)

ListAny ==
    \E i \in {0, 1} :
        /\ nOps < MaxTreeOps
        /\ DoGetChildren(i)

NextTree == MvAny \/ RmAny \/ Cd \/ DecacheAny \/ Resolve \/ ListAny

SpecTree == Init /\ [][NextTree]_vars

\* Uploads and downloads.  The local files: f, whose size and mtime (in
\* microseconds) vary around those of the remote /A/f, and x; the local
\* directories of LocalDirs.
LocalFileInput(name, size, mtime) ==
    [path |-> name, isdir |-> FALSE, isfile |-> TRUE, size |-> size, mtime |-> mtime]
LocalDirInput(path) ==
    [path |-> path, isdir |-> TRUE, isfile |-> FALSE, size |-> 0, mtime |-> 0]

LocalSizes == {1, 2}
LocalTimes == {999, 1000, 1001}
LocalFileInputs ==
    {LocalFileInput(<<"f">>, sz, t) : sz \in LocalSizes, t \in LocalTimes}
        \cup {LocalFileInput(<<"x">>, 1, 1000)}

PutFileInputs ==
    { LocalFileInput(<<"f">>, 1, 1000), LocalFileInput(<<"f">>, 1, 1001),
      LocalFileInput(<<"f">>, 2, 1000), LocalFileInput(<<"x">>, 1, 1000) }
PutDirInputs ==
    { LocalDirInput(<<"d">>), LocalDirInput(<<"t", SEP, "d">>), LocalDirInput(<<"n">>) }
FailingInputs == { {}, {<<"d", SEP, "y">>} }
PutFolders == { StrArg(<<SEP, "A">>) }

DoPut(lp, remote_folder, if_changed, dry_run, schedule, env) ==
    Step([op |-> "put", local_path |-> lp, remote_folder |-> remote_folder,
          if_changed |-> if_changed, dry_run |-> dry_run, schedule |-> schedule,
          failing |-> env.failing, now |-> env.now],
         put(World(env), lp, remote_folder, if_changed, dry_run, schedule))

PutFile ==
    \E lp \in PutFileInputs, rf \in PutFolders, if_changed \in BOOLEAN, dry_run \in BOOLEAN :
        /\ nOps < MaxPutOps
        /\ DoPut(lp, rf, if_changed, dry_run, FALSE, NoEnv)

PutDirectory ==
    \E lp \in PutDirInputs, rf \in PutFolders, if_changed \in BOOLEAN, failing \in FailingInputs :
        /\ nOps < MaxPutOps
        /\ DoPut(lp, rf, if_changed, FALSE, FALSE, Env("error", failing, NoEnv.now))

HasChangedPaths == { StrArg(<<SEP, "A">>), StrArg(<<SEP, "A", SEP, "f">>), IntArg(1) }

HasChanged ==
    \E lf \in LocalFileInputs, rp \in HasChangedPaths :
        /\ nOps < MaxPutOps
        /\ Step([op |-> "has_changed", local_filename |-> lf, remote_path |-> rp],
                has_changed(World(NoEnv),
                            [path |-> lf.path, size |-> lf.size, mtime |-> lf.mtime], rp))

GetPaths == { StrArg(<<SEP, "A", SEP, "f">>), StrArg(<<SEP, "A", SEP, "B">>) }
DownloadFailingInputs == { {}, {<<"g">>} }

DoGet(remote_path, local_directory, if_missing, dry_run, schedule, env) ==
    Step([op |-> "get", remote_path |-> remote_path, local_directory |-> local_directory,
          cwd |-> localFS.cwd, if_missing |-> if_missing,
          dry_run |-> dry_run, schedule |-> schedule, failing |-> env.failing,
          now |-> env.now],
         get(World(env), remote_path, local_directory, if_missing, dry_run, schedule))

Get ==
    \E rp \in GetPaths, if_missing \in BOOLEAN, failing \in DownloadFailingInputs :
        /\ nOps < MaxPutOps
        /\ DoGet(rp, NoneArg, if_missing, FALSE, FALSE, Env("error", failing, NoEnv.now))

ListFolder ==
    \E i \in {1, 2} :
        /\ nOps < MaxPutOps
        /\ DoGetChildren(i)

NextPut == PutFile \/ PutDirectory \/ HasChanged \/ Get \/ ListFolder

SpecPut == Init /\ [][NextPut]_vars

\* Scheduled uploads and downloads, at three times of the day
NowInputs == { <<2026, 11, 5, 3, 0, 0>>, <<2026, 11, 5, 7, 0, 0>>, <<2026, 11, 5, 23, 0, 0>> }

PutScheduled ==
    \E lp \in {LocalFileInput(<<"x">>, 1, 1000), LocalDirInput(<<"d">>)}, rf \in PutFolders,
       now \in NowInputs :
        /\ nOps < MaxPutOps
        /\ DoPut(lp, rf, FALSE, FALSE, TRUE, Env("error", {}, now))

GetScheduled ==
    \E rp \in GetPaths, now \in NowInputs :
        /\ nOps < MaxPutOps
        /\ DoGet(rp, NoneArg, FALSE, FALSE, TRUE, Env("error", {}, now))

NextSched == PutScheduled \/ GetScheduled

SpecSched == InitSched /\ [][NextSched]_vars

\* Uploads and downloads with every option, over a folder B that also holds
\* an item e with neither a URL nor Data and an item m with inline Data
MaxXferOps == 2

XferRemote ==
    InitRemote @@ (5 :> SvcInline(2, <<"e">>, <<>>)) @@ (6 :> SvcInline(2, <<"m">>, <<"text">>))

InitXfer ==
    /\ remote = XferRemote
    /\ cacheItems = <<[k |-> 0, v |-> RootItem]>>
    /\ cacheContents = << >>
    /\ cwdFile \in CwdFileInputs
    /\ CWD = LoadCWD(cwdFile)
    /\ SCHEDULE = DEFAULT_SCHEDULE
    /\ localFS = [files |-> {}, cwd |-> <<>>, dirs |-> LocalDirectories]
    /\ last = NoCall
    /\ prev = NoCall
    /\ nOps = 0

XferLocalInputs ==
    { LocalFileInput(<<"x">>, 1, 1000), LocalDirInput(<<"n">>), LocalDirInput(<<"t", SEP, "n">>) }
XferFolders == { StrArg(<<SEP, "A">>), StrArg(<<SEP, "A", SEP, "f">>), StrArg(<<SEP, "A", SEP, "B">>) }

PutAny ==
    \E lp \in XferLocalInputs, rf \in XferFolders, if_changed \in BOOLEAN, dry_run \in BOOLEAN :
        /\ nOps < MaxXferOps
        /\ DoPut(lp, rf, if_changed, dry_run, FALSE, NoEnv)

XferPaths ==
    { StrArg(<<SEP, "A">>), StrArg(<<SEP, "A", SEP, "B">>), StrArg(<<SEP, "A", SEP, "f">>),
      StrArg(<<SEP, "A", SEP, "B", SEP, "m">>) }
XferFailingInputs == { {}, {<<"f">>} }

GetAny ==
    \E rp \in XferPaths, if_missing \in BOOLEAN, dry_run \in BOOLEAN,
       failing \in XferFailingInputs :
        /\ nOps < MaxXferOps
        /\ DoGet(rp, NoneArg, if_missing, dry_run, FALSE, Env("error", failing, NoEnv.now))

ChangedPaths == { StrArg(<<SEP, "A">>), StrArg(<<SEP, "A", SEP, "x">>), StrArg(<<SEP, "A", SEP, "B">>) }

HasChangedAny ==
    \E rp \in ChangedPaths :
        /\ nOps < MaxXferOps
        /\ Step([op |-> "has_changed", local_filename |-> LocalFile(<<"x">>),
                 remote_path |-> rp],
                has_changed(World(NoEnv), LocalFile(<<"x">>), rp))

NextXfer == PutAny \/ GetAny \/ HasChangedAny

SpecXfer == InitXfer /\ [][NextXfer]_vars

\* Downloads into the working directory, into the local directory /L and into
\* a local directory that does not exist
MaxDownloadOps == 2

DownloadPaths ==
    { StrArg(<<SEP, "A">>), StrArg(<<SEP, "A", SEP, "B">>), StrArg(<<SEP, "A", SEP, "f">>),
      StrArg(<<SEP, "A", SEP, "B", SEP, "m">>), StrArg(<<SEP, "A", SEP, "B", SEP, "e">>) }
DownloadDirectories == { NoneArg, StrArg(<<SEP, "L">>), StrArg(<<SEP, "q">>) }

Download ==
    \E rp \in DownloadPaths, ld \in DownloadDirectories, if_missing \in BOOLEAN :
        /\ nOps < MaxDownloadOps
        /\ DoGet(rp, ld, if_missing, FALSE, FALSE, NoEnv)

NextDownload == Download

SpecDownload == InitXfer /\ [][NextDownload]_vars

\* Uploads of single files into /A, with POSTs that fail and listings of /A
\* between them
MaxUploadOps == 3

UploadInputs == { LocalFileInput(<<"f">>, 1, 1000), LocalFileInput(<<"x">>, 1, 1000) }
UploadFailingInputs == { {}, {<<"x">>} }

UploadFile ==
    \E lp \in UploadInputs, if_changed \in BOOLEAN, failing \in UploadFailingInputs :
        /\ nOps < MaxUploadOps
        /\ DoPut(lp, StrArg(<<SEP, "A">>), if_changed, FALSE, FALSE,
                 Env("error", failing, NoEnv.now))

ListTarget ==
    /\ nOps < MaxUploadOps
    /\ DoGetChildren(1)

NextUpload == UploadFile \/ ListTarget

SpecUpload == Init /\ [][NextUpload]_vars

(***************************************************************************)
(* Properties                                                              *)
(***************************************************************************)
\* the number of calls of that name in a call log
NumCalls(calls, name) == Cardinality({n \in 1..Len(calls) : calls[n][1] = name})

\* the call log holds that call of one argument
Fetched(calls, name, id) == \E n \in 1..Len(calls) : calls[n][1] = name /\ calls[n][2] = id

\* the items of r that the listings from the root down reach
ListedIds(r) == {i \in DOMAIN r : ~r[i].Binned}

\* the listed items of r at that absolute path
IdsAtPath(r, abs_path) == {i \in ListedIds(r) : ApiItem(r, i).FilePath = abs_path}

\* C1: path round-trip.  In every cache state that get_item and get_children
\* calls lead to, get_item of the absolute path (FilePath) of any item that the
\* listings from the root reach returns an item with that item's ID.
C1_PathRoundTrip ==
    \A id \in ListedIds(remote) :
        LET r == get_item(World(NoEnv), StrArg(ApiItem(remote, id).FilePath))
        IN  r.ok /\ HasKey(r.val, "ID") /\ r.val.ID = id

\* a mv of an absolute source to an absolute target in the same folder, the
\* target not existing
IsSameFolderRename(c) ==
    /\ c.op = "mv"
    /\ c.source[1] = SEP /\ c.target[1] = SEP
    /\ os_path_split(c.source)[1] = os_path_split(c.target)[1]
    /\ IdsAtPath(c.pre, c.source) # {}
    /\ IdsAtPath(c.pre, c.target) = {}

\* C2: after a successful same-folder rename mv(source, target), a get_item of
\* the target that follows at once returns the item with the original ID and
\* a get_item of the source fails with NotFound (a DegooError).
C2_RenameAfterState ==
    (IsSameFolderRename(prev) /\ prev.ok /\ last.op = "get_item") =>
        /\ last.path = StrArg(prev.target) =>
               last.ok /\ HasKey(last.val, "ID") /\ last.val.ID = prev.val
        /\ last.path = StrArg(prev.source) => ~last.ok /\ last.err = "DegooError"

\* the source of the mv exists, the target does not, and the target's folder
\* is the source's, whatever the spelling of the two paths
IsSameParentMv(c) ==
    /\ c.op = "mv"
    /\ IdsAtPath(c.pre, absolute_remote_path(CWD, c.source)) # {}
    /\ IdsAtPath(c.pre, absolute_remote_path(CWD, c.target)) = {}
    /\ os_path_split(absolute_remote_path(CWD, c.source))[1]
           = os_path_split(absolute_remote_path(CWD, c.target))[1]

\* C3: a mv whose source and target have the same parent folder, the target
\* not existing, issues exactly one rename call and no move call.
C3_SameParentOneRename ==
    IsSameParentMv(last) =>
        /\ NumCalls(last.calls, "setRenameFile") = 1
        /\ NumCalls(last.calls, "setMoveFile") = 0

\* C4: two mkdir(name, parent_id) in a row, the name absent under parent_id
\* at first, return the same ID and issue one creation call between them.
C4_MkdirIdempotent ==
    (/\ prev.op = "mkdir" /\ last.op = "mkdir"
     /\ prev.name = last.name /\ prev.parent_id = last.parent_id
     /\ ~SvcNameTaken(prev.pre, prev.parent_id, prev.name)) =>
        /\ prev.ok /\ last.ok /\ last.val = prev.val
        /\ NumCalls(prev.calls, "setUploadFile3") + NumCalls(last.calls, "setUploadFile3") = 1

\* a put of the local directory d (files x, y, z) into /A, the upload of y
\* failing, /A holding no d before
IsPartialFailurePut(c) ==
    /\ c.op = "put" /\ c.local_path.path = <<"d">> /\ ~c.dry_run
    /\ c.failing = {<<"d", SEP, "y">>}
    /\ ~SvcNameTaken(c.pre, 1, <<"d">>)

\* C5: a put of a directory of three files, the upload of the second failing,
\* completes, and the two other files are among the remote children of the
\* folder made for the directory: two uploads registered, one failed.
C5_PartialFailure ==
    IsPartialFailurePut(last) =>
        /\ last.ok
        /\ NumCalls(last.calls, "POST") = 3
        /\ \E d \in DOMAIN remote :
               /\ remote[d].ParentID = 1 /\ remote[d].Name = <<"d">>
               /\ SvcNameTaken(remote, d, <<"x">>)
               /\ SvcNameTaken(remote, d, <<"z">>)
               /\ ~SvcNameTaken(remote, d, <<"y">>)

\* C6: after decache(id), the next get_item of id, the next get_item of a path
\* that resolves to id and the next get_children(id) fetch from the service
\* (the item itself or, on the way down a path, the listing that holds it) and
\* return what the service holds.
C6_DecacheRefetch ==
    prev.op = "decache" =>
        /\ (last.op = "get_item" /\ last.path = IntArg(prev.degoo_id)) =>
               /\ Fetched(last.calls, "getOverlay3", prev.degoo_id)
               /\ last.ok /\ last.val = ApiItem(remote, prev.degoo_id)
        /\ (last.op = "get_item" /\ last.path.t = "str" /\ last.ok
               /\ last.val.ID = prev.degoo_id) =>
               /\ \/ Fetched(last.calls, "getOverlay3", prev.degoo_id)
                  \/ Fetched(last.calls, "getFileChildren3", last.val.ParentID)
               /\ last.val = ApiItem(remote, prev.degoo_id)
        /\ (last.op = "get_children" /\ last.directory = prev.degoo_id) =>
               /\ Fetched(last.calls, "getFileChildren3", prev.degoo_id)
               /\ last.val = ApiChildren(remote, prev.degoo_id)

\* the item was cached, changed in the service, decached and read again
C6_Witness ==
    /\ prev.op = "decache" /\ prev.degoo_id = 3 /\ 3 \in prev.cached
    /\ last.op = "get_item" /\ last.path = IntArg(3) /\ last.ok
    /\ last.val # ApiItem(InitRemote, 3)

\* C7: after a successful mkdir, rm or mv that changes the children of a
\* folder, the get_children of that folder that follows at once does not
\* return the children as they were before the mutation.
C7_ListingInvalidated ==
    (/\ prev.op \in {"mkdir", "rm", "mv"} /\ prev.ok
     /\ last.op = "get_children"
     /\ ApiChildren(prev.pre, last.directory) # ApiChildren(last.pre, last.directory)) =>
        last.val # ApiChildren(prev.pre, last.directory)

\* the record of the remote counterpart that the session holds after a
\* has_changed(lf, remote_path): the entry of the folder's cached listing, or
\* the cached item of a file path
RemoteRecords(lf, remote_path) ==
    IF remote_path.t = "int"
    THEN {e \in {cacheContents[remote_path.i][n] : n \in 1..Len(cacheContents[remote_path.i])} :
              e.Name = os_path_basename(lf.path)}
    ELSE IF remote_path.s = <<SEP, "A">>
    THEN {e \in {cacheContents[1][n] : n \in 1..Len(cacheContents[1])} :
              e.Name = os_path_basename(lf.path)}
    ELSE {cacheItems[n].v : n \in {m \in 1..Len(cacheItems) : cacheItems[m].k = 3}}

\* C8: has_changed is true exactly when the local size differs from the
\* remote record's size or the local modification time is later than its
\* last upload time (milliseconds; the local time is in microseconds).
C8_ChangeDetector ==
    (last.op = "has_changed" /\ last.ok) =>
        \A rec \in RemoteRecords(last.local_filename, last.remote_path) :
            last.val = (\/ last.local_filename.size # rec.Size
                        \/ last.local_filename.mtime > 1000 * rec.LastUploadTime)

\* equal size and equal times: not changed
C8_Witness ==
    /\ last.op = "has_changed" /\ last.ok /\ ~last.val
    /\ \E rec \in RemoteRecords(last.local_filename, last.remote_path) :
           /\ last.local_filename.size = rec.Size
           /\ last.local_filename.mtime = 1000 * rec.LastUploadTime

\* the folder /A holds, as the put_file starts, a file of the local file's
\* name and size that was uploaded no earlier than the local file was modified
HoldsUnchanged(c, id) ==
    /\ id \in ListedIds(c.pre)
    /\ c.pre[id].ParentID = 1 /\ c.pre[id].Category = "File"
    /\ c.pre[id].Name = c.local_path.path
    /\ c.pre[id].Size = c.local_path.size
    /\ 1000 * c.pre[id].LastUploadTime >= c.local_path.mtime

\* C9: a put of a file with if_changed, the target folder holding an
\* unchanged file of that name, asks for no upload authorization, uploads
\* nothing, creates nothing and returns that item's ID, path and URL.
C9_SkipUnchanged ==
    (last.op = "put" /\ last.local_path.isfile /\ last.if_changed) =>
        \A id \in DOMAIN last.pre :
            HoldsUnchanged(last, id) =>
                /\ NumCalls(last.calls, "getBucketWriteAuth4") = 0
                /\ NumCalls(last.calls, "POST") = 0
                /\ NumCalls(last.calls, "setUploadFile3") = 0
                /\ last.ok
                /\ last.val = PutTuple(id, ApiItem(last.pre, id).FilePath,
                                       ApiItem(last.pre, id).URL)

\* the time of day of a local time, and whether it lies inside a window
\* <<start, end>>, which wraps midnight when its start is later than its end
TimeOfDay(now) == SubSeq(now, 4, 6)
InsideWindow(tod, window) ==
    IF TupleLess(window[1], window[2])
    THEN TupleLess(window[1], tod) /\ TupleLess(tod, window[2])
    ELSE TupleLess(window[1], tod) \/ TupleLess(tod, window[2])

\* C10: a put or a get with schedule set, at a time of day inside the window
\* of its direction, does not call wait_until_next.
C10_GateNoWait ==
    (/\ last.op \in {"put", "get"} /\ last.schedule
     /\ InsideWindow(TimeOfDay(last.now),
                     SCHEDULE[IF last.op = "put" THEN "upload" ELSE "download"])) =>
        NumCalls(last.calls, "wait_until_next") = 0

\* C11: with a window that wraps midnight (start later than end), a put or a
\* get with schedule set does not wait at a time of day at or after start or
\* before end, and at a time of day between end and start it waits for the
\* next start: wait_until_next(start) is called and returns.
C11_GateWrapsMidnight ==
    LET window == SCHEDULE[IF last.op = "put" THEN "upload" ELSE "download"]
        tod    == TimeOfDay(last.now)
    IN  (/\ last.op \in {"put", "get"} /\ last.schedule
         /\ TupleLess(window[2], window[1])) =>
            IF ~TupleLess(tod, window[1]) \/ TupleLess(tod, window[2])
            THEN NumCalls(last.calls, "wait_until_next") = 0
            ELSE /\ Fetched(last.calls, "wait_until_next", strptime_HMS(window[1]))
                 /\ last.err # "AttributeError"

\* the rename and move calls of a call log, in their order
RenameMoveCalls(calls) == SelectSeq(calls, LAMBDA c : c[1] \in {"setRenameFile", "setMoveFile"})

\* the absolute paths of the source and the target of a mv, and the ID the
\* service holds at the source
MvSourcePath(c) == absolute_remote_path(CWD, c.source)
MvTargetPath(c) == absolute_remote_path(CWD, c.target)
MvSourceId(c) == CHOOSE i \in IdsAtPath(c.pre, MvSourcePath(c)) : TRUE

\* a mv of an existing source to a target that does not exist, in another
\* folder and under another name
IsCrossFolderRename(c) ==
    /\ c.op = "mv"
    /\ IdsAtPath(c.pre, MvSourcePath(c)) # {}
    /\ IdsAtPath(c.pre, MvTargetPath(c)) = {}
    /\ os_path_split(MvSourcePath(c))[1] # os_path_split(MvTargetPath(c))[1]
    /\ os_path_split(MvSourcePath(c))[2] # os_path_split(MvTargetPath(c))[2]

\* C12: a mv to another folder under another name leaves, when it returns,
\* the item in the target folder under the target name; when the source
\* folder holds an item of the target's name, the item is moved first and
\* then renamed in the target folder, with no rename before the move.
C12_MoveThenRename ==
    IsCrossFolderRename(last) =>
        /\ last.ok => IdsAtPath(remote, MvTargetPath(last)) = {MvSourceId(last)}
        /\ \A t \in IdsAtPath(last.pre, os_path_split(MvTargetPath(last))[1]) :
               IdsAtPath(last.pre, os_path_join(os_path_split(MvSourcePath(last))[1],
                                                os_path_split(MvTargetPath(last))[2])) # {} =>
                   RenameMoveCalls(last.calls) =
                       << <<"setMoveFile", MvSourceId(last), t>>,
                          <<"setRenameFile", MvSourceId(last),
                            os_path_split(MvTargetPath(last))[2]>> >>

\* C13: a mv of an existing source to a target path that does not exist
\* succeeds and leaves the item at the target path: in the target's parent
\* directory, made with its missing parents, under the target's basename.
C13_MvToNewPath ==
    (/\ last.op = "mv"
     /\ IdsAtPath(last.pre, MvSourcePath(last)) # {}
     /\ IdsAtPath(last.pre, MvTargetPath(last)) = {}) =>
        /\ last.ok
        /\ IdsAtPath(remote, MvTargetPath(last)) = {MvSourceId(last)}

\* the calls of a call log that rename, move or create
MutatingCalls(calls) ==
    SelectSeq(calls, LAMBDA c : c[1] \in {"setRenameFile", "setMoveFile", "setUploadFile3"})

\* in the session as it is, the source does not resolve to an item, or the
\* target resolves to an item that is no folder
MvInvalid(source, target) ==
    \/ Falsy(path_id(World(NoEnv), StrArg(source)).val)
    \/ /\ ~Falsy(path_id(World(NoEnv), StrArg(target)).val)
       /\ ~is_folder(World(NoEnv), StrArg(target)).val

\* C14: a mv whose source does not resolve to an item, or whose target
\* resolves to an existing item that is no folder, raises DegooError, issues
\* no rename, move or create call and leaves the service as it was.
C14_MvValidation ==
    [][(/\ nOps' = nOps + 1 /\ last'.op = "mv"
        /\ MvInvalid(last'.source, last'.target)) =>
           /\ ~last'.ok /\ last'.err = "DegooError"
           /\ MutatingCalls(last'.calls) = <<>>
           /\ remote' = remote]_vars

\* a mv of a source that does not exist, into a folder that does not exist
\* either, and then a mv onto an existing file: both raised and the service
\* holds what it held
C14_Witness ==
    /\ prev.op = "mv" /\ prev.source = <<"q">> /\ prev.target = <<"n", SEP, "h">>
    /\ CWD.ID = 1 /\ ~prev.ok
    /\ last.op = "mv" /\ last.source = <<SEP, "A", SEP, "f">>
    /\ last.target = <<SEP, "A", SEP, "B", SEP, "g">> /\ ~last.ok
    /\ remote = InitRemote

\* the delete calls of a call log
DeleteCalls(calls) == SelectSeq(calls, LAMBDA c : c[1] = "setDeleteFile5")

C16_UnknownIdNotFound ==
    (/\ last.op = "get_item" /\ last.path.t = "int"
     /\ last.path.i # 0 /\ last.path.i \notin DOMAIN last.pre
     /\ last.path.i \notin last.cached) =>
        /\ ~last.ok
        /\ ~CacheHas(cacheItems, last.path.i)

\* C17: a get_children that fetches the listing (a cache miss) returns every
\* child the service holds under the folder, in the service's order, and
\* caches that complete listing.
C17_AllPagesListed ==
    (/\ last.op = "get_children" /\ last.ok
     /\ Fetched(last.calls, "getFileChildren3", last.directory)) =>
        /\ last.val = ApiChildren(last.pre, last.directory)
        /\ last.directory \in DOMAIN cacheContents
        /\ cacheContents[last.directory] = ApiChildren(last.pre, last.directory)

\* C18: the item cache holds the synthetic root item under the ID 0 in every
\* state, as it was when the module was loaded, and a get_item(0) issues no
\* call to the service.
C18_RootAlwaysCached ==
    /\ CacheHas(cacheItems, 0)
    /\ CacheGet(cacheItems, 0) = RootItem
    /\ (last.op = "get_item" /\ last.path = IntArg(0)) => last.calls = <<>>

\* C19: a successful cd(path) leaves the module's CWD, which null-path and
\* relative-path resolution read, equal to the (ID, Path) of the item at path,
\* and an operation other than cd leaves the module's CWD as it was.
C19_CdSetsCWD ==
    [][ /\ (last'.op = "cd" /\ last'.ok) => CWD' = last'.val
        /\ last'.op # "cd" => CWD' = CWD ]_vars

\* C20: while no cwd.json exists the state loaded from it is (0, "/"); a cd
\* that succeeds rewrites cwd.json with the (ID, absolute path) it resolved
\* and returns; a cd whose path does not resolve leaves cwd.json as it was.
C20_CdPersists ==
    [][ /\ cwdFile = NoFile => CWD = ddd(0, <<SEP>>)
        /\ (last'.op = "cd" /\ last'.ok) =>
               /\ cwdFile' = last'.val
               /\ cwdFile' # NoFile
               /\ Head(cwdFile'.Path) = SEP
        /\ (last'.op = "cd" /\ ~last'.ok) => cwdFile' = cwdFile ]_vars

\* from no cwd.json: a cd of a path that does not resolve, then a cd to /A
\* that writes (1, "/A")
C20_Witness ==
    /\ CWD = ddd(0, <<SEP>>)
    /\ prev.op = "cd" /\ prev.path = StrArg(<<"q">>) /\ ~prev.ok
    /\ last.op = "cd" /\ last.path = StrArg(<<SEP, "A">>) /\ last.ok
    /\ cwdFile = ddd(1, <<SEP, "A">>)

\* the depth below the root after each component of comps, from depth d:
\* TRUE when a ".." steps above the root
RECURSIVE Escapes(_, _)
Escapes(comps, d) ==
    IF Len(comps) = 0 THEN FALSE
    ELSE IF Head(comps) = <<>> \/ Head(comps) = <<DOT>> THEN Escapes(Tail(comps), d)
    ELSE IF Head(comps) = DOTDOT THEN d = 0 \/ Escapes(Tail(comps), d - 1)
    ELSE Escapes(Tail(comps), d + 1)

\* the path, read from the root or from the directory cwd, climbs above the root
EscapesRoot(cwd, path) ==
    Escapes(SplitSep(IF Len(path) > 0 /\ path[1] = SEP THEN path
                     ELSE os_path_join(cwd.Path, path)), 0)

\* C27: a get_item of a path string whose ".." segments climb above the root
\* raises and returns no item.
C27_EscapeRejected ==
    (/\ last.op = "get_item" /\ last.path.t = "str"
     /\ EscapesRoot(CWD, last.path.s)) => ~last.ok

\* C28: a get_item of a path string with a non-terminal segment that is no
\* folder raises, and the children of that item are not requested from the
\* service.
C28_NoListingOfFiles ==
    (/\ last.op = "get_item"
     /\ last.path = StrArg(<<SEP, "A", SEP, "f", SEP, "x">>)
     /\ 3 \in DOMAIN last.pre /\ last.pre[3].Category \notin folder_types
     /\ IdsAtPath(last.pre, <<SEP, "A", SEP, "f">>) = {3}) =>
        /\ ~last.ok
        /\ ~Fetched(last.calls, "getFileChildren3", 3)

\* the calls of a put that create an item, authorise an upload or upload
UploadCalls(calls) ==
    SelectSeq(calls, LAMBDA c : c[1] \in {"setUploadFile3", "getBucketWriteAuth4", "POST"})

\* C21: a put, of a local file or of a local directory, to a remote_folder that
\* resolves to an item that is no folder raises and issues no create call, no
\* upload authorisation and no upload.
C21_PutToNonFolder ==
    (/\ last.op = "put" /\ last.remote_folder = StrArg(<<SEP, "A", SEP, "f">>)
     /\ IdsAtPath(last.pre, <<SEP, "A", SEP, "f">>) = {3}
     /\ last.pre[3].Category \notin folder_types) =>
        /\ ~last.ok
        /\ UploadCalls(last.calls) = <<>>

\* C22: a put with dry_run set, of a file or of a directory tree, issues no
\* create call, no upload authorisation and no upload, and leaves the
\* service's items as they were.
C22_DryRunPut ==
    (last.op = "put" /\ last.dry_run) =>
        /\ UploadCalls(last.calls) = <<>>
        /\ remote = last.pre

\* a dry run of a file that would be uploaded, then a dry run of the tree n
\* that walks both of its directories
C22_Witness ==
    /\ prev.op = "put" /\ prev.dry_run /\ prev.local_path.isfile /\ prev.ok
    /\ prev.val = PutNone
    /\ last.op = "put" /\ last.dry_run /\ last.local_path = LocalDirInput(<<"n">>)
    /\ last.ok /\ Len(last.trace) = 6
    /\ remote = XferRemote

\* the downloads started and the local files written by a get
TransferCalls(calls) == SelectSeq(calls, LAMBDA c : c[1] \in {"wget", "open_w"})

\* C23: a get with dry_run set, of a file or of a folder tree, creates no
\* local directory, writes no local file and starts no download.
C23_DryRunGet ==
    [][ (last'.op = "get" /\ last'.dry_run) =>
            /\ localFS'.files = localFS.files
            /\ TransferCalls(last'.calls) = <<>> ]_vars

\* C24: a get with if_missing set starts no download for, and does not write,
\* a destination file that exists locally when the get is called.
C24_IfMissingSkips ==
    [][ (last'.op = "get" /\ last'.if_missing) =>
            \A n \in 1..Len(TransferCalls(last'.calls)) :
                TransferCalls(last'.calls)[n][3] \notin localFS.files ]_vars

\* the file items of the listing of dir_id and of the listings below it, as
\* the listing cache holds them
RECURSIVE WalkFiles(_, _, _)
WalkFiles(contents, dir_id, depth) ==
    IF depth = 0 \/ dir_id \notin DOMAIN contents THEN {}
    ELSE LET here == {contents[dir_id][n] : n \in 1..Len(contents[dir_id])}
         IN  {c \in here : IsFileItem(c)}
                 \cup UNION {WalkFiles(contents, c.ID, depth - 1) : c \in {h \in here : IsFolderItem(h)}}

\* the folder a get of that path walks
GetFolderId(remote_path) == IF remote_path = StrArg(<<SEP, "A">>) THEN 1 ELSE 2

C26_AbsentIsChanged ==
    (/\ last.op = "has_changed"
     /\ IdsAtPath(last.pre, <<SEP, "A", SEP, "x">>) = {}
     /\ last.remote_path \in {StrArg(<<SEP, "A">>), StrArg(<<SEP, "A", SEP, "x">>)}) =>
        /\ last.ok
        /\ last.val = TRUE

\* C29: in the walk of a put of a directory tree, every mkdir of a
\* subdirectory and every put_file comes after the step that ensured the
\* remote folder of its local parent directory, and is given the ID that step
\* returned.
C29_ParentEnsuredFirst ==
    (last.op = "put" /\ last.local_path.isdir) =>
        \A n \in 2..Len(last.trace) :
            last.trace[n][1] \in {"mkdir", "put_file"} =>
                \E m \in 1..(n - 1) :
                    last.trace[m] = <<"ensured", os_path_split(last.trace[n][2])[1],
                                      last.trace[n][3]>>

\* a put of the tree n below /A/B: the folder s is made in the folder made for
\* n, and y is put into the folder made for s
C29_Witness ==
    /\ last.op = "put" /\ last.local_path = LocalDirInput(<<"n">>)
    /\ last.remote_folder = StrArg(<<SEP, "A", SEP, "B">>)
    /\ ~last.dry_run /\ last.ok /\ Len(last.trace) = 6
    /\ \E i, j \in DOMAIN remote \ DOMAIN last.pre :
           /\ remote[i].Name = <<"n">> /\ remote[i].ParentID = 2
           /\ remote[j].Name = <<"s">> /\ remote[j].ParentID = i
           /\ last.trace[3] = <<"mkdir", <<"n", SEP, "s">>, i>>
           /\ last.trace[6] = <<"put_file", <<"n", SEP, "s", SEP, "y">>, j>>

\* the listed items of r at abs_path that are folders, and those that are files
FoldersAtPath(r, abs_path) == {i \in IdsAtPath(r, abs_path) : r[i].Category \in folder_types}
FilesAtPath(r, abs_path) == {i \in IdsAtPath(r, abs_path) : r[i].Category \notin folder_types}

\* the tree of the local directory n (the file x, the directory s and its
\* file y) is in r below the folder at abs_path
MirrorsN(r, abs_path) ==
    /\ FoldersAtPath(r, abs_path \o <<SEP, "n">>) # {}
    /\ FilesAtPath(r, abs_path \o <<SEP, "n", SEP, "x">>) # {}
    /\ FoldersAtPath(r, abs_path \o <<SEP, "n", SEP, "s">>) # {}
    /\ FilesAtPath(r, abs_path \o <<SEP, "n", SEP, "s", SEP, "y">>) # {}

\* C30: a put of a local directory, named bare ("n") or with leading
\* directory components ("t/n"), into a remote folder returns with a folder of
\* its name in that folder, a same-named folder for every subdirectory in the
\* folder of its parent, and every file in the folder of its directory.
C30_MirrorsTree ==
    (/\ last.op = "put" /\ last.local_path.isdir /\ ~last.dry_run
     /\ last.remote_folder \in {StrArg(<<SEP, "A">>), StrArg(<<SEP, "A", SEP, "B">>)}) =>
        /\ last.ok
        /\ MirrorsN(remote, last.remote_folder.s)

\* the calls of a log from its first upload authorisation on
FromAuth(calls) ==
    IF \E n \in 1..Len(calls) : calls[n][1] = "getBucketWriteAuth4"
    THEN SubSeq(calls, CHOOSE n \in 1..Len(calls) :
                           /\ calls[n][1] = "getBucketWriteAuth4"
                           /\ \A m \in 1..(n - 1) : calls[m][1] # "getBucketWriteAuth4",
                Len(calls))
    ELSE <<>>

\* C31: a put of a single file that starts an upload issues the upload
\* authorisation, the POST of the content, setUploadFile3 (with the listing
\* it makes) and getOverlay3 of the new item, in that order; when the POST is
\* not answered with 204, nothing follows the POST, the put raises DegooError
\* and the service's items are as before.
C31_UploadOrder ==
    (/\ last.op = "put" /\ last.local_path.isfile
     /\ FromAuth(last.calls) # <<>>) =>
        LET steps == FromAuth(last.calls)
        IN  IF last.local_path.path \in last.failing
            THEN /\ [n \in 1..Len(steps) |-> steps[n][1]] = <<"getBucketWriteAuth4", "POST">>
                 /\ ~last.ok /\ last.err = "DegooError"
                 /\ remote = last.pre
            ELSE /\ [n \in 1..Len(steps) |-> steps[n][1]] =
                        <<"getBucketWriteAuth4", "POST", "setUploadFile3",
                          "getFileChildren5", "getOverlay3">>
                 /\ last.ok
                 /\ steps[5][2] = last.val.ID

\* an upload of x whose POST fails, then one that succeeds and makes /A/x
C31_Witness ==
    /\ prev.op = "put" /\ prev.local_path.path = <<"x">> /\ prev.failing = {<<"x">>}
    /\ ~prev.ok /\ NumCalls(prev.calls, "POST") = 1
    /\ last.op = "put" /\ last.local_path.path = <<"x">> /\ last.failing = {} /\ last.ok
    /\ NumCalls(last.calls, "setUploadFile3") = 1
    /\ IdsAtPath(last.pre, <<SEP, "A", SEP, "x">>) = {}
    /\ IdsAtPath(remote, <<SEP, "A", SEP, "x">>) = {last.val.ID}

\* the effect of call c on the items r would leave two listed children of a
\* folder with one name
ClashingCall(r, c) ==
    /\ c[2] \in DOMAIN r
    /\ \/ c[1] = "setMoveFile" /\ SvcNameClash(r, c[2], c[3], r[c[2]].Name)
       \/ c[1] = "setRenameFile" /\ SvcNameClash(r, c[2], r[c[2]].ParentID, c[3])

\* C34: the first rename or move call that a mv issues is not one whose
\* effect would give a folder two children of one name.
C34_NoClashingCall ==
    (last.op = "mv" /\ RenameMoveCalls(last.calls) # <<>>) =>
        ~ClashingCall(last.pre, RenameMoveCalls(last.calls)[1])

\* C35: a get_item of the path that the rm before it deleted raises: the
\* path no longer resolves to an item.
C35_RemovedPathGone ==
    (/\ prev.op = "rm" /\ prev.ok /\ prev.file = StrArg(<<SEP, "A", SEP, "f">>)
     /\ last.op = "get_item" /\ last.path = prev.file) =>
        ~last.ok

\* C32: a get_item of a path string returns the item, or raises the error,
\* that the walk over the path's segments from the root gives in the same
\* session state without the look-up among the cached FilePaths.
C32_ShortcutIsWalk ==
    [][ (last'.op = "get_item" /\ last'.path.t = "str") =>
            LET walked == get_item_parts(World(NoEnv),
                                         split_path(absolute_remote_path(CWD, last'.path.s)))
            IN  /\ last'.ok = walked.ok
                /\ last'.err = walked.err
                /\ last'.val = walked.val ]_vars

\* C33: a put or a get with schedule set that calls wait_until_next gets the
\* call back: the wait ends by returning, and the operation proceeds instead of
\* ending with the wait's own error.
C33_WaitReturns ==
    (/\ last.op \in {"put", "get"} /\ last.schedule
     /\ NumCalls(last.calls, "wait_until_next") > 0) =>
        /\ last.err # "AttributeError"
        /\ last.calls[Len(last.calls)][1] # "wait_until_next"

\* C37: every ID a mkdir without dry_run returns is the ID of an item of a
\* folder category; a file that already carries the name under the parent is
\* not returned as the directory.
C37_MkdirReturnsFolder ==
    (last.op = "mkdir" /\ last.ok /\ last.val # NONE) =>
        /\ last.val \in DOMAIN remote
        /\ remote[last.val].Category \in folder_types

\* C38: every entry of the item cache is a well-formed item, carrying an ID
\* equal to its key and an absolute FilePath; and after one get_item of an ID
\* the service has no record of, a get_item of the absolute path of an item
\* the service lists does not raise.
C38_CacheWellFormed ==
    /\ \A n \in 1..Len(cacheItems) :
           /\ HasKey(cacheItems[n].v, "ID") /\ cacheItems[n].v.ID = cacheItems[n].k
           /\ HasKey(cacheItems[n].v, "FilePath") /\ cacheItems[n].v.FilePath[1] = SEP
    /\ (/\ prev.op = "get_item" /\ prev.path.t = "int" /\ prev.path.i \notin DOMAIN prev.pre
        /\ last.op = "get_item" /\ last.path.t = "str"
        /\ IdsAtPath(last.pre, last.path.s) # {}) => last.ok

\* C36: right after a put that uploaded the local file f into a folder, a put
\* of the same f into the same folder with if_changed set issues no upload
\* authorisation and returns the ID of the item the first put made, whatever
\* listing of the folder the session had cached.
C36_RepeatSkips ==
    (/\ prev.op = "put" /\ prev.ok /\ prev.local_path.isfile
     /\ NumCalls(prev.calls, "getBucketWriteAuth4") = 1
     /\ last.op = "put" /\ last.if_changed
     /\ last.local_path = prev.local_path
     /\ last.remote_folder = prev.remote_folder) =>
        /\ NumCalls(last.calls, "getBucketWriteAuth4") = 0
        /\ last.ok
        /\ last.val.ID = prev.val.ID

\* the listed items of r at or below the folder at abs_path
IdsBelow(r, abs_path) ==
    {i \in ListedIds(r) :
        LET fp == ApiItem(r, i).FilePath
        IN  \/ fp = abs_path
            \/ Len(fp) > Len(abs_path) + 1
               /\ SubSeq(fp, 1, Len(abs_path) + 1) = abs_path \o <<SEP>>}

\* where the item at file_path belongs locally when the folder at abs_path is
\* reproduced in local_directory: below the folder's own name
LocalPlace(local_directory, abs_path, file_path) ==
    local_directory \o <<SEP>> \o SubSeq(file_path, Len(abs_path), Len(file_path))

\* C39: after a get of a remote folder into an existing local_directory, every
\* folder at or below it is a local directory at the same relative place under
\* local_directory, and every file with a URL below it is a local file inside
\* the local directories of the folders that hold it.
C39_TreeReproduced ==
    (/\ last.op = "get" /\ last.ok
     /\ last.local_directory.t = "str" /\ last.local_directory.s \in LocalDirectories
     /\ FoldersAtPath(remote, last.remote_path.s) # {}) =>
        \A i \in IdsBelow(remote, last.remote_path.s) :
            LET item  == ApiItem(remote, i)
                place == LocalPlace(last.local_directory.s, last.remote_path.s, item.FilePath)
            IN  IF item.CategoryName \in folder_types THEN place \in localFS.dirs
                ELSE Len(item.URL) > 0 => place \in localFS.files

\* C40: a get leaves the local working directory of the process as it found
\* it, whether it downloads, skips because of if_missing, writes inline Data
\* or raises.
C40_CwdRestored ==
    last.op = "get" => localFS.cwd = last.cwd

====
